---- MODULE Spec2Model ----
(***************************************************************************)
(* fastapi-launcher: the PID-file process-supervision state machine.       *)
(*                                                                         *)
(* One runtime directory with its PID file <runtimeDir>/fa.pid, one        *)
(* configured port, and a bounded number of CLI invocations (start, dev,   *)
(* restart, stop, status, reload, monitor).  Every invocation is a         *)
(* sequence of steps taken from cli.py / launcher.py / daemon.py /         *)
(* process.py / port.py; the supervised processes, the signals they get    *)
(* and an unsupervised port occupant are the environment.                  *)
(*                                                                         *)
(* Operator discipline (spec section 5, "single human/script operator per  *)
(* runtime directory at a time"): a new invocation begins only when every  *)
(* other invocation has ended or is blocked in the backend dispatch.       *)
(* A termination signal is taken at a statement boundary of launch() up to *)
(* and including the dispatch; the two-statement finally clause runs       *)
(* as one step.  The platform is Unix: daemonize() forks.                   *)
(***************************************************************************)
EXTENDS Integers, FiniteSets, Sequences, TLC

\* Number of CLI invocations in one behaviour.
MaxInv == 2

Inv == 1..MaxInv

\* OS process ids.  Invocation i runs as PidOf(i,1); the double fork of
\* daemonize() moves it to PidOf(i,2) (first child) and PidOf(i,3) (daemon).
PidOf(i, stage) == 3 * (i - 1) + stage

\* A process outside the launcher's supervision that may hold the port
\* (externally started server, orphaned worker).
ExtPid == 3 * MaxInv + 1

\* A PID left in the PID file by an earlier session; that process is gone.
OldPid == 3 * MaxInv + 2

---------------------------------------------------------------------------
\* PID file contents and Optional[int].

Absent    == [st |-> "absent", val |-> 0]
Malformed == [st |-> "bad",    val |-> 0]
Rec(n)    == [st |-> "pid",    val |-> n]

None    == [some |-> FALSE, val |-> 0]
Some(n) == [some |-> TRUE,  val |-> n]

\* Contents the PID file may have before the first invocation.
InitialFiles == {Absent, Malformed, Rec(0), Rec(0 - 1), Rec(OldPid)}

LauncherKinds == {"start", "dev", "restart"}

VARIABLES
    pidFile,   \* contents of <runtimeDir>/fa.pid
    port,      \* pid of the process listening on the configured port, 0 = free
    inv,       \* the CLI invocations, by slot
    dying,     \* pids with a delivered SIGKILL that has not taken effect yet
    cfgIn,     \* loadConfig: the configuration sources and arguments of one call
    cfgOut,    \* loadConfig: what the call gave, then what launch() made of it
    os,        \* process functions: the processes and the port they act on
    call,      \* process functions: the library call in progress
    dz,        \* daemonize: the three processes of one call and what they did
    rm,        \* PID-file removal: the removals in progress
    cl,        \* clean: the runtime directory and the command in progress
    cmd        \* start / run: the options given and the configurations resolved

\* State of the library functions exercised on their own.
fnVars == <<cfgIn, cfgOut, os, call, dz, rm, cl, cmd>>

vars == <<pidFile, port, inv, dying, cfgIn, cfgOut, os, call, dz, rm, cl, cmd>>

Idle == [kind      |-> "none",
         pc        |-> "none",
         stage     |-> 1,
         daemonOpt |-> FALSE,    \* start: daemon enabled (--daemon or config)
         force     |-> FALSE,    \* stop --force
         handlers  |-> FALSE,    \* registerSignalHandlers() has run
         wroteDz   |-> FALSE,    \* daemonize() wrote the PID file
         wroteLn   |-> FALSE,    \* launch() wrote the PID file
         tpid      |-> None,     \* result of readPidFile
         wasDaemon |-> FALSE,    \* restart: wasDaemon
         prevDz    |-> FALSE,    \* restart: the stopped instance had daemonized
         sawStale  |-> FALSE,    \* restart: the recorded process was not running
         stopped   |-> FALSE,    \* stop/restart: terminateProcess/killProcess result
         waited    |-> FALSE,    \* stop: proc.wait(timeout) expired before the kill
         sigs      |-> <<>>,     \* signals this invocation sent to pid tpid, in order
         portFree  |-> FALSE,    \* waitForPortFree result
         repRun    |-> FALSE,    \* status: statusInfo["running"]
         repPid    |-> None,     \* status: statusInfo["pid"]
         end       |-> ""]       \* how the invocation ended, "" while it runs

Pid(i) == PidOf(i, inv[i].stage)

Alive(i) == inv[i].kind # "none" /\ inv[i].end = ""

\* The OS process table: is there a live, non-zombie process with this pid.
ProcessExists(pid) ==
    \/ \E i \in Inv : Alive(i) /\ Pid(i) = pid
    \/ pid = ExtPid /\ port = ExtPid

\* Blocked in the backend dispatch, or ended.
Quiescent(i) == inv[i].pc \in {"none", "serve", "done"}

---------------------------------------------------------------------------
\* process.py: PID file primitives and liveness.

\* writePidFile: the file holds str(pid), whatever it held before.
WritePidFile(pid) == Rec(pid)

\* A readPidFile that takes any existing file for a PID.
ReadPidFileLenient(f) == IF f.st = "absent" THEN None ELSE Some(f.val)

\* readPidFile: None when the file is missing or int() rejects its content.
ReadPidFile(f) == IF f.st = "pid" THEN Some(f.val) ELSE None

\* removePidFile: unlink when the file exists.
RemovePidFile(f) == Absent

\* An existence test that always finds the file.
FileAlwaysExists(f) == TRUE

\* removePidFile's return value: a file existed and was unlinked.
RemovePidFileResult(f) == f # Absent

\* A liveness check that takes every pid that is not positive for running.
IsProcessRunningAnyPid(pid) == pid <= 0 \/ ProcessExists(pid)

\* isProcessRunning: pid <= 0 is never running; NoSuchProcess means not running.
IsProcessRunning(pid) == pid > 0 /\ ProcessExists(pid)

---------------------------------------------------------------------------
\* cli.py / launcher.py: decisions.

\* start: daemonEnabled from --daemon/--no-daemon (dmode) and config.daemon.
DaemonEnabled(dmode, cfgDaemon) ==
    IF dmode = "false" THEN FALSE
    ELSE IF dmode = "true" THEN TRUE
    ELSE cfgDaemon

\* A launch() with no cleanup.
KeepPidFile(f) == f

\* launch's finally clause: unlink the PID file if it exists.
LaunchCleanup(f) == IF f # Absent THEN Absent ELSE f

\* The statements of launch() that lie inside try ... finally.
InTry(pc) == pc = "serve"

\* Positions of a launcher process at which a termination signal is taken.
LaunchWindow == {"c_cfg", "dz_fork1", "dz_fork2", "dz_redirect", "dz_write",
                 "l_cfg", "l_pre", "l_write", "l_reg", "l_try", "serve"}

FinPcs == {"fin_return", "fin_error", "fin_signal"}

\* The exit reason a finally position carries.
FinReason(pc) ==
    IF pc = "fin_return" THEN "return"
    ELSE IF pc = "fin_error" THEN "error"
    ELSE "signal"

\* The port after process pid stopped listening.
Released(pid) == IF port = pid THEN 0 ELSE port

\* Invocation i has ended; only its kind and the way it ended are kept.
Ended(i, why) ==
    [inv EXCEPT ![i] = [Idle EXCEPT !.kind = inv[i].kind, !.pc = "done", !.end = why]]

---------------------------------------------------------------------------
\* config.py / schemas/configSchema.py: configuration resolution.
\* Three fields stand for the schema: port (an integer with a range,
\* overridable), reload and daemon (booleans, overridable); mode selects the
\* dev/prod section.

\* LauncherConfig.port: default and range.
DefaultPort == 8000
MinPort     == 1
MaxPort     == 65535

\* Optional[bool] and an optional raw string of the environment.
NoneB    == [some |-> FALSE, val |-> FALSE]
SomeB(b) == [some |-> TRUE,  val |-> b]
NoRaw    == [some |-> FALSE, val |-> ""]
Raw(str) == [some |-> TRUE,  val |-> str]

\* A dict of configuration keys (a source's contribution) and an
\* EnvironmentConfig: a key that is absent or None has some = FALSE.
NoKeys == [port |-> None, reload |-> NoneB, daemon |-> NoneB]

\* An Optional[EnvironmentConfig] (dev, prod) and the Optional dict of named
\* environments; every name in keys maps to the section ov.
NoSection   == [some |-> FALSE, ov |-> NoKeys]
Section(ov) == [some |-> TRUE,  ov |-> ov]
NoEnvs      == [some |-> FALSE, keys |-> {}, ov |-> NoKeys]
Envs(ks, ov) == [some |-> TRUE, keys |-> ks, ov |-> ov]

\* int(value) on the raw strings used here; ValueError gives None.
ParseInt(str) ==
    CASE str = "2" -> Some(2)
      [] str = "3" -> Some(3)
      [] OTHER     -> None

\* str.lower() on the raw strings used here.
Lower(str) ==
    CASE str = "YES"  -> "yes"
      [] str = "No"   -> "no"
      [] str = "True" -> "true"
      [] OTHER        -> str

\* A boolean coercion that drops what is neither true nor false.
CoerceBoolStrict(str) ==
    IF Lower(str) \in {"true", "1", "yes"} THEN SomeB(TRUE)
    ELSE IF Lower(str) \in {"false", "0", "no"} THEN SomeB(FALSE)
    ELSE NoneB

\* _parseEnvValues, boolean keys: result[key] = str(value).lower() in
\* ("true", "1", "yes").
CoerceBool(str) == SomeB(Lower(str) \in {"true", "1", "yes"})

\* _parseEnvValues on the raw PORT and RELOAD of the process environment or
\* of the dotenv file: an integer that does not parse is dropped.
ParseEnvValues(raw) ==
    [port   |-> IF raw.PORT.some THEN ParseInt(raw.PORT.val) ELSE None,
     reload |-> IF raw.RELOAD.some THEN CoerceBool(raw.RELOAD.val) ELSE NoneB,
     daemon |-> IF raw.DAEMON.some THEN CoerceBool(raw.DAEMON.val) ELSE NoneB]

\* A merge in which the earlier dict wins.
MergeKeepFirst(a, b) ==
    [port   |-> IF a.port.some THEN a.port ELSE b.port,
     reload |-> IF a.reload.some THEN a.reload ELSE b.reload,
     daemon |-> IF a.daemon.some THEN a.daemon ELSE b.daemon]

\* mergeConfigs, one step: the keys of b that are not None replace those of a.
MergeTwo(a, b) ==
    [port   |-> IF b.port.some THEN b.port ELSE a.port,
     reload |-> IF b.reload.some THEN b.reload ELSE a.reload,
     daemon |-> IF b.daemon.some THEN b.daemon ELSE a.daemon]

\* mergeConfigs(*configs): later ones take precedence.
RECURSIVE MergeConfigs(_)
MergeConfigs(configs) ==
    IF configs = <<>> THEN NoKeys
    ELSE MergeTwo(MergeConfigs(SubSeq(configs, 1, Len(configs) - 1)),
                  configs[Len(configs)])

\* LauncherConfig(**merged): pydantic rejects a port outside its range.
Valid(merged) == merged.port.some => merged.port.val \in MinPort..MaxPort

\* LauncherConfig(**merged): absent keys take the defaults.
Construct(merged, mode, dev, prod, envs) ==
    [port   |-> IF merged.port.some THEN merged.port.val ELSE DefaultPort,
     reload |-> IF merged.reload.some THEN merged.reload.val ELSE FALSE,
     daemon |-> IF merged.daemon.some THEN merged.daemon.val ELSE FALSE,
     mode   |-> mode,
     dev    |-> dev,
     prod   |-> prod,
     envs   |-> envs]

\* `if config.envs`: a dict that is neither None nor empty.
HasEnvs(envs) == envs.some /\ envs.keys # {}

\* getEffectiveConfig: the section that is applied.  envName "" is None.
EnvConfig(config, envName) ==
    IF envName # "" /\ HasEnvs(config.envs)
    THEN (IF envName \in config.envs.keys THEN Section(config.envs.ov) ELSE NoSection)
    ELSE IF envName = ""
         THEN (IF config.mode = "dev" THEN config.dev ELSE config.prod)
         ELSE NoSection

\* An override that builds the result from the section alone.
ApplyFromDefaults(config, ov) ==
    [port   |-> IF ov.port.some THEN ov.port.val ELSE DefaultPort,
     reload |-> IF ov.reload.some THEN ov.reload.val ELSE FALSE,
     daemon |-> IF ov.daemon.some THEN ov.daemon.val ELSE FALSE,
     mode   |-> config.mode,
     dev    |-> NoSection,
     prod   |-> NoSection,
     envs   |-> NoEnvs]

\* getEffectiveConfig, the copy: model_dump without dev, prod and envs, then
\* every field of the section that is not None.
ApplyOverride(config, ov) ==
    [port   |-> IF ov.port.some THEN ov.port.val ELSE config.port,
     reload |-> IF ov.reload.some THEN ov.reload.val ELSE config.reload,
     daemon |-> IF ov.daemon.some THEN ov.daemon.val ELSE config.daemon,
     mode   |-> config.mode,
     dev    |-> NoSection,
     prod   |-> NoSection,
     envs   |-> NoEnvs]

\* LauncherConfig.getEffectiveConfig(envName).
GetEffectiveConfig(config, envName) ==
    LET envConfig == EnvConfig(config, envName) IN
    IF ~envConfig.some THEN config ELSE ApplyOverride(config, envConfig.ov)

\* A validation that only looks for the name among defined environments.
EnvCheckKnownOnly(envName, envs) ==
    IF envName # "" /\ HasEnvs(envs) /\ envName \notin envs.keys THEN "notfound"
    ELSE "ok"

\* loadConfig: "Validate named environment exists if specified".
EnvCheck(envName, envs) ==
    IF envName # "" /\ HasEnvs(envs)
    THEN (IF envName \notin envs.keys THEN "notfound" ELSE "ok")
    ELSE IF envName # "" /\ ~HasEnvs(envs) THEN "nodefs"
    ELSE "ok"

\* launch(): "Apply mode override": the mode argument replaces config.mode
\* and getEffectiveConfig() is applied with no environment name.
ModeOverride(config, mode) ==
    IF mode # "" THEN GetEffectiveConfig([config EXCEPT !.mode = mode], "")
    ELSE config

\* launch(): "Apply dev mode defaults": reload is forced on in dev mode.
DevDefaults(config) ==
    IF config.mode = "dev" /\ ~config.reload THEN [config EXCEPT !.reload = TRUE]
    ELSE config

\* The configuration a failed loadConfig does not return.
NoConfig == Construct(NoKeys, "dev", NoSection, NoSection, NoEnvs)

\* The merged dict of loadConfig.
Merged(in) ==
    MergeConfigs(<<in.pyproject, ParseEnvValues(in.dotenv),
                   ParseEnvValues(in.osEnv), in.cli>>)

\* The LauncherConfig of loadConfig before getEffectiveConfig; mode "" is
\* None and the schema default of mode is dev.
Config(in) ==
    Construct(Merged(in), IF in.mode # "" THEN in.mode ELSE "dev",
              in.dev, in.prod, in.envs)

\* loadConfig: status "invalid" (ValidationError) and "notfound" / "nodefs"
\* are the ValueErrors it raises.
LoadConfig(in) ==
    IF ~Valid(Merged(in)) THEN [status |-> "invalid", config |-> NoConfig]
    ELSE IF EnvCheck(in.envName, in.envs) # "ok"
         THEN [status |-> EnvCheck(in.envName, in.envs), config |-> NoConfig]
         ELSE [status |-> "ok",
               config |-> GetEffectiveConfig(Config(in), in.envName)]

---------------------------------------------------------------------------
\* The processes a library call of process.py acts on: the target and its
\* two descendants.
Tree == {"root", "kid1", "kid2"}
Kids == Tree \ {"root"}

\* A process that does not exist.
NoProc == [state |-> "gone", access |-> "full", got |-> {}]

\* No start or run command is followed.
NoCommand ==
    [kind |-> "none", pc |-> "done", optPort |-> None, optDaemon |-> NoneB,
     optEnv |-> "", raw |-> "", detEnv |-> "", detMode |-> "",
     own |-> [status |-> "none", config |-> NoConfig], daemonEnabled |-> FALSE,
     launch |-> [status |-> "none", config |-> NoConfig], end |-> ""]

\* The removals of the PID file that may run at the same time.
Removers == {1, 2}

\* No removal is followed.
NoRemovals ==
    [r \in Removers |-> [by |-> "none", pc |-> "idle", had |-> FALSE, results |-> <<>>]]

\* No clean command is followed.
NoClean ==
    [pc |-> "none", logsOnly |-> FALSE, yes |-> FALSE, dir |-> FALSE,
     marker |-> FALSE, logs |-> 0, count |-> 0, warned |-> FALSE, end |-> "",
     file0 |-> Absent, marker0 |-> FALSE, logs0 |-> 0]

\* The processes of one daemonize() call.
Family == {"original", "child", "grandchild"}

\* No daemonize() call is followed.
NoDaemon ==
    [procs |-> [w \in Family |-> [pc |-> "none", code |-> ""]],
     log |-> <<>>, pidArg |-> FALSE, slot |-> 1, file0 |-> Absent]

\* No library call is followed.
NoOs == [procs |-> [p \in Tree |-> NoProc], busy |-> FALSE]

NoCall ==
    [fn |-> "none", pc |-> "done", polls |-> 0, result |-> "none",
     live |-> "unchecked", sigs |-> <<>>, expired |-> FALSE, raised |-> "",
     children |-> {}, todo |-> {}, alive |-> {}, final |-> {}]

\* An environment (or dotenv file) that sets none of the keys.
NoRaws == [PORT |-> NoRaw, RELOAD |-> NoRaw, DAEMON |-> NoRaw]

\* No loadConfig call is followed.
NoInputs ==
    [pyproject |-> NoKeys, dotenv |-> NoRaws, osEnv |-> NoRaws, cli |-> NoKeys,
     dev |-> NoSection, prod |-> NoSection, envs |-> NoEnvs,
     envName |-> "", mode |-> ""]

NotLoaded == [status |-> "none", config |-> NoConfig, launched |-> FALSE]

Init ==
    /\ pidFile \in InitialFiles
    /\ port \in {0, ExtPid}
    /\ inv = [i \in Inv |-> Idle]
    /\ dying = {}
    /\ cfgIn = NoInputs
    /\ cfgOut = NotLoaded
    /\ os = NoOs
    /\ call = NoCall
    /\ dz = NoDaemon
    /\ rm = NoRemovals
    /\ cl = NoClean
    /\ cmd = NoCommand

\* The operator may begin invocation i now.
CanBegin(i) ==
    /\ inv[i].kind = "none"
    /\ \A j \in Inv : j < i => inv[j].kind # "none"
    /\ \A j \in Inv : Quiescent(j)

Begin(i, kind, pc0, dmn, frc) ==
    inv' = [inv EXCEPT ![i] = [Idle EXCEPT !.kind = kind, !.pc = pc0,
                                           !.daemonOpt = dmn, !.force = frc]]

\* fa start [--daemon/--no-daemon]
NewStart(i) ==
    /\ CanBegin(i)
    /\ \E dmode \in {"none", "true", "false"}, cfgDaemon \in BOOLEAN :
           Begin(i, "start", "c_cfg", DaemonEnabled(dmode, cfgDaemon), FALSE)
    /\ UNCHANGED <<pidFile, port, dying>>
    /\ UNCHANGED fnVars

\* fa dev: launch() at once, no configuration load in the command itself.
NewDev(i) ==
    /\ CanBegin(i)
    /\ Begin(i, "dev", "l_cfg", FALSE, FALSE)
    /\ UNCHANGED <<pidFile, port, dying>>
    /\ UNCHANGED fnVars

\* loadConfig in the command body (start, stop, restart, status, reload,
\* monitor): a ValueError is not caught there.
CliLoadConfig(i) ==
    /\ inv[i].pc = "c_cfg"
    /\ \E cfgOk \in BOOLEAN :
          inv' = IF ~cfgOk THEN Ended(i, "cfg_exc")
                 ELSE IF inv[i].kind = "start"
                      THEN [inv EXCEPT ![i].pc = IF inv[i].daemonOpt THEN "dz_fork1"
                                                 ELSE "l_cfg"]
                      ELSE [inv EXCEPT ![i].pc = "read"]
    /\ UNCHANGED <<pidFile, port, dying>>
    /\ UNCHANGED fnVars

---------------------------------------------------------------------------
\* daemon.py: daemonize() on Unix.

\* First fork: the invoking process exits 0, the first child goes on
\* (chdir, setsid, umask); a failed fork exits 1.
DzFork1(i) ==
    /\ inv[i].pc = "dz_fork1"
    /\ \E forked \in BOOLEAN :
          inv' = IF forked THEN [inv EXCEPT ![i].stage = 2, ![i].pc = "dz_fork2"]
                 ELSE Ended(i, "fork")
    /\ UNCHANGED <<pidFile, port, dying>>
    /\ UNCHANGED fnVars

\* Second fork: the first child exits 0, the grandchild goes on.
DzFork2(i) ==
    /\ inv[i].pc = "dz_fork2"
    /\ \E forked \in BOOLEAN :
          inv' = IF forked THEN [inv EXCEPT ![i].stage = 3, ![i].pc = "dz_redirect"]
                 ELSE Ended(i, "fork")
    /\ UNCHANGED <<pidFile, port, dying>>
    /\ UNCHANGED fnVars

\* _redirectStdStreams in the grandchild.
DzRedirect(i) ==
    /\ inv[i].pc = "dz_redirect"
    /\ inv' = [inv EXCEPT ![i].pc = "dz_write"]
    /\ UNCHANGED <<pidFile, port, dying>>
    /\ UNCHANGED fnVars

\* pidFile.write_text(str(os.getpid())) in the grandchild; the caller then
\* calls launch().
DzWrite(i) ==
    /\ inv[i].pc = "dz_write"
    /\ pidFile' = WritePidFile(Pid(i))
    /\ inv' = [inv EXCEPT ![i].wroteDz = TRUE, ![i].pc = "l_cfg"]
    /\ UNCHANGED <<port, dying>>
    /\ UNCHANGED fnVars

---------------------------------------------------------------------------
\* launcher.py: launch().

\* loadConfig inside launch: ValueError becomes LaunchError, the command
\* exits 1.  start and restart have resolved the same sources already.
LaunchLoadConfig(i) ==
    /\ inv[i].pc = "l_cfg"
    /\ \E cfgOk \in BOOLEAN :
          inv' = IF cfgOk \/ inv[i].kind # "dev" THEN [inv EXCEPT ![i].pc = "l_pre"]
                 ELSE Ended(i, "cfg_err")
    /\ UNCHANGED <<pidFile, port, dying>>
    /\ UNCHANGED fnVars

\* preLaunchChecks: port occupied, app not discoverable or not importable
\* raise LaunchError.
PreLaunchChecks(i) ==
    /\ inv[i].pc = "l_pre"
    /\ \E appOk \in BOOLEAN :
          inv' = IF port # 0 \/ ~appOk THEN Ended(i, "preflight")
                 ELSE [inv EXCEPT ![i].pc = "l_write"]
    /\ UNCHANGED <<pidFile, port, dying>>
    /\ UNCHANGED fnVars

\* runtimeDir.mkdir; writePidFile(pidFile) with the current pid.
LaunchWritePid(i) ==
    /\ inv[i].pc = "l_write"
    /\ pidFile' = WritePidFile(Pid(i))
    /\ inv' = [inv EXCEPT ![i].wroteLn = TRUE, ![i].pc = "l_reg"]
    /\ UNCHANGED <<port, dying>>
    /\ UNCHANGED fnVars

\* registerSignalHandlers(): SIGTERM and SIGINT now raise SystemExit(0).
RegisterSignalHandlers(i) ==
    /\ inv[i].pc = "l_reg"
    /\ inv' = [inv EXCEPT ![i].handlers = TRUE, ![i].pc = "l_try"]
    /\ UNCHANGED <<pidFile, port, dying>>
    /\ UNCHANGED fnVars

\* Banner, then the try block is entered and the backend is started: it
\* binds the port and blocks, or raises.
Dispatch(i) ==
    /\ inv[i].pc = "l_try"
    /\ \E up \in BOOLEAN :
          IF up /\ port = 0
          THEN /\ port' = Pid(i)
               /\ inv' = [inv EXCEPT ![i].pc = "serve"]
          ELSE /\ port' = port
               /\ inv' = [inv EXCEPT ![i].pc = "fin_error"]
    /\ UNCHANGED <<pidFile, dying>>
    /\ UNCHANGED fnVars

\* The blocking backend call returns.
BackendReturns(i) ==
    /\ inv[i].pc = "serve"
    /\ port' = Released(Pid(i))
    /\ inv' = [inv EXCEPT ![i].pc = "fin_return"]
    /\ UNCHANGED <<pidFile, dying>>
    /\ UNCHANGED fnVars

\* The blocking backend call raises; launch re-raises it as LaunchError.
BackendRaises(i) ==
    /\ inv[i].pc = "serve"
    /\ port' = Released(Pid(i))
    /\ inv' = [inv EXCEPT ![i].pc = "fin_error"]
    /\ UNCHANGED <<pidFile, dying>>
    /\ UNCHANGED fnVars

\* finally: if pidFile.exists(): pidFile.unlink(); then the process ends.
Finally(i) ==
    /\ inv[i].pc \in FinPcs
    /\ pidFile' = LaunchCleanup(pidFile)
    /\ inv' = Ended(i, FinReason(inv[i].pc))
    /\ UNCHANGED <<port, dying>>
    /\ UNCHANGED fnVars

---------------------------------------------------------------------------
\* Environment of a launcher process.

\* Effect of SIGTERM / SIGINT on the process of invocation i.  Inside the
\* try block the SystemExit raised by the handler unwinds through finally.
\* Anywhere else the process ends with no cleanup: killed by the default
\* SIGTERM action, or unwound by KeyboardInterrupt / SystemExit outside try.
Terminated(i) ==
    IF InTry(inv[i].pc) THEN [inv EXCEPT ![i].pc = "fin_signal"]
    ELSE Ended(i, "sigexit")

\* Ctrl-C or kill <pid> from outside.
TermSignal(i) ==
    /\ Alive(i)
    /\ inv[i].kind \in LauncherKinds
    /\ inv[i].pc \in LaunchWindow
    /\ inv' = Terminated(i)
    /\ port' = Released(Pid(i))
    /\ UNCHANGED <<pidFile, dying>>
    /\ UNCHANGED fnVars

\* The process is gone at once, with no cleanup (SIGKILL taking effect, a
\* crash).  Workers it forked may go on listening on the port.
Gone(i) ==
    /\ inv' = Ended(i, "killed")
    /\ \E orphan \in BOOLEAN :
          port' = IF port = Pid(i) /\ orphan THEN ExtPid ELSE Released(Pid(i))
    /\ dying' = dying \ {Pid(i)}

Crash(i) ==
    /\ Alive(i)
    /\ inv[i].kind \in LauncherKinds
    /\ inv[i].pc \in LaunchWindow \cup FinPcs
    /\ Pid(i) \notin dying
    /\ Gone(i)
    /\ UNCHANGED pidFile
    /\ UNCHANGED fnVars

\* A SIGKILL sent by stop/restart takes effect.
Die(i) ==
    /\ Alive(i)
    /\ Pid(i) \in dying
    /\ Gone(i)
    /\ UNCHANGED pidFile
    /\ UNCHANGED fnVars

\* The unsupervised port occupant goes away.
ExtExit ==
    /\ port = ExtPid
    /\ port' = 0
    /\ UNCHANGED <<pidFile, inv, dying>>
    /\ UNCHANGED fnVars

---------------------------------------------------------------------------
\* cli.py: stop, restart, status, reload, monitor.

NewStop(i) ==
    /\ CanBegin(i)
    /\ \E frc \in BOOLEAN : Begin(i, "stop", "c_cfg", FALSE, frc)
    /\ UNCHANGED <<pidFile, port, dying>>
    /\ UNCHANGED fnVars

NewRestart(i) ==
    /\ CanBegin(i)
    /\ Begin(i, "restart", "c_cfg", FALSE, FALSE)
    /\ UNCHANGED <<pidFile, port, dying>>
    /\ UNCHANGED fnVars

NewStatus(i) ==
    /\ CanBegin(i)
    /\ Begin(i, "status", "c_cfg", FALSE, FALSE)
    /\ UNCHANGED <<pidFile, port, dying>>
    /\ UNCHANGED fnVars

NewReload(i) ==
    /\ CanBegin(i)
    /\ Begin(i, "reload", "c_cfg", FALSE, FALSE)
    /\ UNCHANGED <<pidFile, port, dying>>
    /\ UNCHANGED fnVars

NewMonitor(i) ==
    /\ CanBegin(i)
    /\ Begin(i, "monitor", "c_cfg", FALSE, FALSE)
    /\ UNCHANGED <<pidFile, port, dying>>
    /\ UNCHANGED fnVars

\* Python truthiness of an Optional[int]: `if pid`.
Truthy(o) == o.some /\ o.val # 0

\* Where a command goes after pid = readPidFile(pidFile).
AfterRead(kind, pid) ==
    IF kind \in {"stop", "reload"} THEN (IF pid = None THEN "nopid" ELSE "live")
    ELSE IF kind = "restart" THEN (IF Truthy(pid) THEN "live" ELSE "r_start")
    ELSE "mon"

\* pid = readPidFile(pidFile); stop and reload exit 1 when it is None.
ReadPid(i) ==
    /\ inv[i].pc = "read"
    /\ inv[i].kind # "status"
    /\ LET pid == ReadPidFile(pidFile)
           nxt == AfterRead(inv[i].kind, pid)
       IN  inv' = IF nxt = "nopid"
                  THEN [Ended(i, "nopid") EXCEPT ![i].tpid = pid]
                  ELSE [inv EXCEPT ![i].tpid = pid, ![i].pc = nxt,
                                   ![i].sawStale = (inv[i].kind = "restart"
                                                    /\ pid.some /\ ~Truthy(pid))]
    /\ UNCHANGED <<pidFile, port, dying>>
    /\ UNCHANGED fnVars

\* The recorded process is one that went through daemonize().
Detached(pid) == \E j \in Inv : Alive(j) /\ Pid(j) = pid /\ inv[j].stage = 3

\* restart: wasDaemon = True whenever the recorded process is running.
WasDaemon(running, detached) == running

\* isProcessRunning(pid) on the recorded pid.  Not running: stop and reload
\* remove the PID file and exit (0 for stop, 1 for reload); restart goes on
\* to start.
CheckLive(i) ==
    /\ inv[i].pc = "live"
    /\ LET pid     == inv[i].tpid.val
           running == IsProcessRunning(pid)
       IN
       IF running
       THEN /\ pidFile' = pidFile
            /\ inv' = IF inv[i].kind = "reload"
                      THEN [inv EXCEPT ![i].pc = "hup"]
                      ELSE [inv EXCEPT ![i].pc = "sig",
                                       ![i].wasDaemon =
                                           (inv[i].kind = "restart"
                                            /\ WasDaemon(running, Detached(pid))),
                                       ![i].prevDz = Detached(pid)]
       ELSE IF inv[i].kind = "restart"
            THEN /\ pidFile' = pidFile
                 /\ inv' = [inv EXCEPT ![i].sawStale = TRUE, ![i].pc = "r_start"]
            ELSE /\ pidFile' = RemovePidFile(pidFile)
                 /\ inv' = Ended(i, "stale")
    /\ UNCHANGED <<port, dying>>
    /\ UNCHANGED fnVars

\* The invocation whose process has this pid, as a set (empty or one slot).
Holder(pid) == {j \in Inv : Alive(j) /\ Pid(j) = pid}

\* inv after SIGTERM reached pid.  Delivery during the finally clause is
\* not modelled: that process is already on its way out.
AfterTerm(pid) ==
    [j \in Inv |-> IF j \in Holder(pid) /\ inv[j].pc \in LaunchWindow
                   THEN Terminated(j)[j]
                   ELSE inv[j]]

\* A stop that removes the PID file whatever `stopped` is.
AlwaysRemove(stopped) == "rm"

\* stop / restart after `stopped = ...`: remove the PID file when stopped,
\* else "Failed to stop server", exit 1.
OnStopped(stopped) == IF stopped THEN "rm" ELSE "failed"


\* A restart or stop that goes on to remove the PID file whatever was returned.
ProceedAnyway(i, stopped) == [inv EXCEPT ![i].stopped = stopped, ![i].pc = "rm"]

\* inv after terminateProcess / killProcess returned `stopped` in invocation i.
Returned(i, stopped) ==
    IF OnStopped(stopped) = "rm"
    THEN [inv EXCEPT ![i].stopped = stopped, ![i].pc = "rm"]
    ELSE Ended(i, "failed")

\* stop: killProcess(pid) with --force, else terminateProcess(pid, timeout);
\* restart: terminateProcess(pid, timeout).  Both return True at once when
\* the process is no longer running; AccessDenied on the signal returns
\* `not isProcessRunning(pid)`.
SendStop(i) ==
    /\ inv[i].pc = "sig"
    /\ LET pid == inv[i].tpid.val IN
       IF ~IsProcessRunning(pid)
       THEN /\ inv' = Returned(i, TRUE)
            /\ UNCHANGED <<port, dying>>
       ELSE \E denied \in BOOLEAN :
              IF denied
              THEN /\ inv' = Returned(i, ~IsProcessRunning(pid))
                   /\ UNCHANGED <<port, dying>>
              ELSE IF inv[i].force
                   THEN /\ dying' = dying \cup {pid}
                        /\ inv' = [inv EXCEPT ![i].sigs = <<"KILL">>,
                                              ![i].pc = "kwait"]
                        /\ port' = port
                   ELSE /\ inv' = [AfterTerm(pid) EXCEPT ![i].sigs = <<"TERM">>,
                                                         ![i].pc = "twait"]
                        /\ port' = Released(pid)
                        /\ dying' = dying
    /\ UNCHANGED pidFile
    /\ UNCHANGED fnVars

\* terminateProcess: proc.wait(timeout) returns when the process is gone;
\* when the timeout expires first, proc.kill().
WaitTerm(i) ==
    /\ inv[i].pc = "twait"
    /\ LET pid == inv[i].tpid.val IN
       IF ~ProcessExists(pid)
       THEN /\ inv' = Returned(i, TRUE)
            /\ UNCHANGED dying
       ELSE /\ dying' = dying \cup {pid}
            /\ inv' = [inv EXCEPT ![i].waited = TRUE,
                                  ![i].sigs = Append(inv[i].sigs, "KILL"),
                                  ![i].pc = "kwait"]
    /\ UNCHANGED <<pidFile, port>>
    /\ UNCHANGED fnVars

\* proc.wait(timeout=3) after the kill: gone gives True; expiry gives False
\* (terminateProcess) or `not isProcessRunning(pid)` (killProcess).
WaitKill(i) ==
    /\ inv[i].pc = "kwait"
    /\ LET pid == inv[i].tpid.val IN
       inv' = IF ~ProcessExists(pid)
              THEN Returned(i, TRUE)
              ELSE Returned(i, IF inv[i].force THEN ~IsProcessRunning(pid) ELSE FALSE)
    /\ UNCHANGED <<pidFile, port, dying>>
    /\ UNCHANGED fnVars

\* if stopped: removePidFile(pidFile)
RemoveAfterStop(i) ==
    /\ inv[i].pc = "rm"
    /\ pidFile' = RemovePidFile(pidFile)
    /\ inv' = [inv EXCEPT ![i].pc = "pwait"]
    /\ UNCHANGED <<port, dying>>
    /\ UNCHANGED fnVars

\* What stop does with waitForPortFree's result: nothing, it reports success.
AfterPortWait(free) == "stopped"

\* waitForPortFree(config.port, timeout=5.0): True once the port is seen
\* free, False when the timeout expires with the port in use.
PortWait(i) ==
    /\ inv[i].pc = "pwait"
    /\ LET free == (port = 0) IN
       inv' = IF inv[i].kind = "restart"
              THEN [inv EXCEPT ![i].portFree = free, ![i].pc = "r_start"]
              ELSE [Ended(i, AfterPortWait(free)) EXCEPT ![i].portFree = free]
    /\ UNCHANGED <<pidFile, port, dying>>
    /\ UNCHANGED fnVars

\* restart: "Start in the same mode": daemonize() when wasDaemon, then launch().
RestartStart(i) ==
    /\ inv[i].pc = "r_start"
    /\ inv' = [inv EXCEPT ![i].pc = IF inv[i].wasDaemon THEN "dz_fork1" ELSE "l_cfg"]
    /\ UNCHANGED <<pidFile, port, dying>>
    /\ UNCHANGED fnVars

\* getProcessStatus(pid).isRunning.  psutil.Process rejects a negative pid
\* with ValueError, which getProcessStatus does not catch.
GetProcessStatus(pid) == IF pid < 0 THEN "exc" ELSE IF ProcessExists(pid) THEN "up" ELSE "down"

\* status: what printStatusTable is given.  `if pid:` reports the recorded
\* pid with getProcessStatus' verdict; `elif isPortInUse(...)` reports
\* running with getPortInfo's pid (occupant: None when the owner of the
\* socket cannot be resolved); else not running.
StatusInfo(f, occupant) ==
    LET pid == ReadPidFile(f) IN
    IF Truthy(pid)
    THEN [exc |-> GetProcessStatus(pid.val) = "exc",
          run |-> GetProcessStatus(pid.val) = "up",
          pid |-> pid]
    ELSE IF port # 0
         THEN [exc |-> FALSE, run |-> TRUE, pid |-> occupant]
         ELSE [exc |-> FALSE, run |-> FALSE, pid |-> None]

\* status reads the PID file, the process table and the port in one go.
Status(i) ==
    /\ inv[i].pc = "read"
    /\ inv[i].kind = "status"
    /\ \E visible \in BOOLEAN :
          LET info == StatusInfo(pidFile, IF visible THEN Some(port) ELSE None) IN
          inv' = IF info.exc THEN Ended(i, "exc")
                 ELSE [Ended(i, "reported") EXCEPT ![i].repRun = info.run,
                                                   ![i].repPid = info.pid]
    /\ UNCHANGED <<pidFile, port, dying>>
    /\ UNCHANGED fnVars

\* reload: sendSignal(pid, SIGHUP).  os.kill fails when the process is gone
\* or not ours.  launch() installs no SIGHUP handler: a backend that does
\* not handle SIGHUP itself is ended by the default action, with no cleanup.
SendHup(i) ==
    /\ inv[i].pc = "hup"
    /\ LET pid == inv[i].tpid.val IN
       \E delivered \in BOOLEAN, handled \in BOOLEAN :
          IF delivered /\ ProcessExists(pid)
          THEN /\ inv' = [j \in Inv |->
                            IF j = i THEN [Ended(i, "hup")[i] EXCEPT !.sigs = <<"HUP">>]
                            ELSE IF j \in Holder(pid) /\ ~handled
                                 THEN Ended(j, "hupexit")[j]
                                 ELSE inv[j]]
               /\ port' = IF handled THEN port ELSE Released(pid)
          ELSE /\ inv' = Ended(i, "hupfail")
               /\ port' = port
    /\ UNCHANGED <<pidFile, dying>>
    /\ UNCHANGED fnVars

\* monitor: warns when the recorded process is not running, then shows the
\* live view; the PID file is only read.
MonitorRun(i) ==
    /\ inv[i].pc = "mon"
    /\ inv' = Ended(i, "monitored")
    /\ UNCHANGED <<pidFile, port, dying>>
    /\ UNCHANGED fnVars

\* The exit status of the command: "0", "1", "exc" (uncaught exception),
\* "sig" (ended by a signal).
ExitCode(kind, end) ==
    IF end \in {"return", "stopped", "reported", "hup", "monitored"} THEN "0"
    ELSE IF end = "stale" THEN (IF kind = "stop" THEN "0" ELSE "1")
    ELSE IF end \in {"cfg_err", "preflight", "fork", "error", "failed",
                     "nopid", "hupfail"} THEN "1"
    ELSE IF end \in {"cfg_exc", "exc"} THEN "exc"
    ELSE IF end = "signal" THEN "0"
    ELSE "sig"

Next ==
    \/ \E i \in Inv : NewStart(i)
    \/ \E i \in Inv : NewDev(i)
    \/ \E i \in Inv : CliLoadConfig(i)
    \/ \E i \in Inv : DzFork1(i)
    \/ \E i \in Inv : DzFork2(i)
    \/ \E i \in Inv : DzRedirect(i)
    \/ \E i \in Inv : DzWrite(i)
    \/ \E i \in Inv : LaunchLoadConfig(i)
    \/ \E i \in Inv : PreLaunchChecks(i)
    \/ \E i \in Inv : LaunchWritePid(i)
    \/ \E i \in Inv : RegisterSignalHandlers(i)
    \/ \E i \in Inv : Dispatch(i)
    \/ \E i \in Inv : BackendReturns(i)
    \/ \E i \in Inv : BackendRaises(i)
    \/ \E i \in Inv : Finally(i)
    \/ \E i \in Inv : TermSignal(i)
    \/ \E i \in Inv : Crash(i)
    \/ \E i \in Inv : Die(i)
    \/ ExtExit
    \/ \E i \in Inv : NewStop(i)
    \/ \E i \in Inv : NewRestart(i)
    \/ \E i \in Inv : NewStatus(i)
    \/ \E i \in Inv : NewReload(i)
    \/ \E i \in Inv : NewMonitor(i)
    \/ \E i \in Inv : ReadPid(i)
    \/ \E i \in Inv : CheckLive(i)
    \/ \E i \in Inv : SendStop(i)
    \/ \E i \in Inv : WaitTerm(i)
    \/ \E i \in Inv : WaitKill(i)
    \/ \E i \in Inv : RemoveAfterStop(i)
    \/ \E i \in Inv : PortWait(i)
    \/ \E i \in Inv : RestartStart(i)
    \/ \E i \in Inv : Status(i)
    \/ \E i \in Inv : SendHup(i)
    \/ \E i \in Inv : MonitorRun(i)

Spec == Init /\ [][Next]_vars

---------------------------------------------------------------------------
\* Configuration resolution on its own: one loadConfig call on sources drawn
\* from small sets, followed by what launch() does to its result.

\* Values a section of the project file sets.
Overrides == [port : {None, Some(5)}, reload : {NoneB, SomeB(FALSE)}, daemon : {NoneB}]

\* dev / prod sections of the project file: neither, dev, or prod.
Legacy(ov) == {<<NoSection, NoSection>>, <<Section(ov), NoSection>>,
               <<NoSection, Section(ov)>>}

ConfigInputs ==
    UNION { UNION { [pyproject : [port : {None, Some(1)}, reload : {NoneB, SomeB(TRUE)},
                                  daemon : {NoneB}],
                     dotenv    : [PORT : {NoRaw, Raw("2"), Raw("x")},
                                  RELOAD : {NoRaw, Raw("maybe")},
                                  DAEMON : {NoRaw}],
                     osEnv     : [PORT : {NoRaw, Raw("3")},
                                  RELOAD : {NoRaw, Raw("YES"), Raw("No")},
                                  DAEMON : {NoRaw}],
                     cli       : [port : {None, Some(4), Some(0)},
                                  reload : {NoneB, SomeB(FALSE)},
                                  daemon : {NoneB}],
                     dev       : {lg[1]},
                     prod      : {lg[2]},
                     envs      : {NoEnvs, Envs({}, NoKeys), Envs({"staging"}, ov)},
                     envName   : {"", "staging", "qa"},
                     mode      : {"", "dev", "prod"}] : lg \in Legacy(ov) }
            : ov \in Overrides }

ConfigInit ==
    /\ pidFile = Absent
    /\ port = 0
    /\ inv = [i \in Inv |-> Idle]
    /\ dying = {}
    /\ cfgIn \in ConfigInputs
    /\ cfgOut = NotLoaded
    /\ os = NoOs
    /\ call = NoCall
    /\ dz = NoDaemon
    /\ rm = NoRemovals
    /\ cl = NoClean
    /\ cmd = NoCommand

\* config = loadConfig(projectDir, cliArgs, mode, envName)
CallLoadConfig ==
    /\ cfgOut.status = "none"
    /\ LET r == LoadConfig(cfgIn) IN
       cfgOut' = [status |-> r.status, config |-> r.config, launched |-> FALSE]
    /\ UNCHANGED <<dz, pidFile, port, inv, dying, cfgIn, os, call, rm, cl, cmd>>

\* launch() on the loaded configuration: mode override, dev mode defaults.
LaunchApply ==
    /\ cfgOut.status = "ok"
    /\ ~cfgOut.launched
    /\ cfgOut' = [cfgOut EXCEPT
                     !.config = DevDefaults(ModeOverride(cfgOut.config, cfgIn.mode)),
                     !.launched = TRUE]
    /\ UNCHANGED <<dz, pidFile, port, inv, dying, cfgIn, os, call, rm, cl, cmd>>

ConfigNext ==
    \/ CallLoadConfig
    \/ LaunchApply

ConfigSpec == ConfigInit /\ [][ConfigNext]_vars

---------------------------------------------------------------------------
\* The functions of process.py and the port waits of port.py on their own:
\* one call on a target that exits, is reaped and changes state at any time.
\* A timeout is the number of polls that fit in it.

MaxPolls  == 2    \* polls that fit in the `timeout` argument
KillPolls == 1    \* polls that fit in the fixed 3 seconds after a kill

Fns == {"terminateProcess", "killProcess", "waitForExit",
        "terminateProcessTree", "waitForPort", "waitForPortFree"}

Proc(p) == os.procs[p]

\* The pid is in the process table (a zombie still is).
Exists(p) == Proc(p).state # "gone"

Live(p) == Proc(p).state = "live"

\* isProcessRunning(pid) on the process table: NoSuchProcess and AccessDenied
\* of the lookup both give False, and so does a zombie.
IsProcessRunningOs(p) == Live(p) /\ Proc(p).access # "hidden"

\* `return not isProcessRunning(pid)` of the except clauses.
NotRunning(p) == ~IsProcessRunningOs(p)

\* What a wait may take for exited: every process that is gone, and any of
\* the zombies (a zombie is reaped by a wait in its parent only).
ExitedViews ==
    { ex \in SUBSET Tree :
        /\ \A p \in Tree : ~Exists(p) => p \in ex
        /\ \A p \in ex : ~Live(p) }

\* The targets the calls are tried on.  The canonical record of a process
\* that does not exist is NoProc.
Roots ==
    {NoProc} \cup [state : {"live", "zombie"},
                   access : {"full", "nosignal", "hidden"}, got : {{}}]

Descendants ==
    {NoProc} \cup [state : {"live"}, access : {"full", "nosignal"}, got : {{}}]

ProcInit ==
    /\ pidFile = Absent
    /\ port = 0
    /\ inv = [i \in Inv |-> Idle]
    /\ dying = {}
    /\ cfgIn = NoInputs
    /\ cfgOut = NotLoaded
    /\ dz = NoDaemon
    /\ rm = NoRemovals
    /\ cl = NoClean
    /\ cmd = NoCommand
    /\ \E fn \in Fns :
         /\ call = [NoCall EXCEPT !.fn = fn, !.pc = "start"]
         /\ \E r \in Roots, k1 \in Descendants, k2 \in Descendants, b \in BOOLEAN :
              /\ os = [procs |-> [p \in Tree |->
                                    IF p = "root" THEN r
                                    ELSE IF p = "kid1" THEN k1 ELSE k2],
                       busy |-> b]
              /\ fn # "terminateProcessTree" => (k1 = NoProc /\ k2 = NoProc)
              /\ fn \in {"waitForPort", "waitForPortFree"} => r = NoProc
              /\ fn \notin {"waitForPort", "waitForPortFree"} => ~b

InCall(fn, pc) == call.fn = fn /\ call.pc = pc

\* A return of True or False; final keeps what was live at that moment.
Return(b) ==
    call' = [call EXCEPT !.result = IF b THEN "true" ELSE "false",
                         !.pc = "done",
                         !.final = {p \in Tree : Live(p)}]

\* psutil.Process(pid) followed by proc.terminate() or proc.kill() inside
\* the outer try: NoSuchProcess and AccessDenied go to the except clause.
Send(p, sig, nextPc) ==
    IF ~Exists(p)
    THEN /\ call' = [call EXCEPT !.raised = "NoSuchProcess", !.pc = "except"]
         /\ os' = os
    ELSE IF Proc(p).access # "full"
    THEN /\ call' = [call EXCEPT !.raised = "AccessDenied", !.pc = "except"]
         /\ os' = os
    ELSE /\ call' = [call EXCEPT !.sigs = Append(@, <<sig, p>>),
                                 !.pc = nextPc, !.polls = 0]
         /\ os' = [os EXCEPT !.procs[p].got = @ \cup {sig}]

\* child.terminate() / p.kill() of terminateProcessTree: NoSuchProcess and
\* AccessDenied are passed over.
SendQuiet(p, sig) ==
    IF Exists(p) /\ Proc(p).access = "full"
    THEN /\ call' = [call EXCEPT !.sigs = Append(@, <<sig, p>>),
                                 !.todo = @ \ {p}]
         /\ os' = [os EXCEPT !.procs[p].got = @ \cup {sig}]
    ELSE /\ call' = [call EXCEPT !.todo = @ \ {p}]
         /\ os' = os

\* `if not isProcessRunning(pid): return True` at the head of a function.
Check(nextPc) ==
    /\ IF IsProcessRunningOs("root")
       THEN call' = [call EXCEPT !.live = "live", !.pc = nextPc]
       ELSE call' = [call EXCEPT !.live = "notlive", !.result = "true",
                                 !.pc = "done",
                                 !.final = {p \in Tree : Live(p)}]
    /\ os' = os

\* ---- terminateProcess(pid, timeout)
TpCheck ==
    /\ InCall("terminateProcess", "start")
    /\ Check("term")
    /\ UNCHANGED <<dz, pidFile, port, inv, dying, cfgIn, cfgOut, rm, cl, cmd>>

TpTerminate ==
    /\ InCall("terminateProcess", "term")
    /\ Send("root", "term", "wait")
    /\ UNCHANGED <<dz, pidFile, port, inv, dying, cfgIn, cfgOut, rm, cl, cmd>>

\* A wait that escalates at once.
TpWaitImpatient ==
    /\ InCall("terminateProcess", "wait")
    /\ \E ex \in ExitedViews :
         IF "root" \in ex THEN Return(TRUE)
         ELSE call' = [call EXCEPT !.pc = "kill"]
    /\ UNCHANGED <<dz, pidFile, port, inv, dying, cfgIn, cfgOut, os, rm, cl, cmd>>

\* proc.wait(timeout=timeout): one poll.
TpWait ==
    /\ InCall("terminateProcess", "wait")
    /\ \E ex \in ExitedViews :
         IF "root" \in ex THEN Return(TRUE)
         ELSE IF call.polls < MaxPolls
              THEN call' = [call EXCEPT !.polls = @ + 1]
              ELSE call' = [call EXCEPT !.expired = TRUE, !.pc = "kill"]
    /\ UNCHANGED <<dz, pidFile, port, inv, dying, cfgIn, cfgOut, os, rm, cl, cmd>>

TpKill ==
    /\ InCall("terminateProcess", "kill")
    /\ Send("root", "kill", "waitkill")
    /\ UNCHANGED <<dz, pidFile, port, inv, dying, cfgIn, cfgOut, rm, cl, cmd>>

\* proc.wait(timeout=3) after the kill: one poll.
TpWaitKill ==
    /\ InCall("terminateProcess", "waitkill")
    /\ \E ex \in ExitedViews :
         IF "root" \in ex THEN Return(TRUE)
         ELSE IF call.polls < KillPolls
              THEN call' = [call EXCEPT !.polls = @ + 1]
              ELSE Return(FALSE)
    /\ UNCHANGED <<dz, pidFile, port, inv, dying, cfgIn, cfgOut, os, rm, cl, cmd>>

TpExcept ==
    /\ InCall("terminateProcess", "except")
    /\ Return(NotRunning("root"))
    /\ UNCHANGED <<dz, pidFile, port, inv, dying, cfgIn, cfgOut, os, rm, cl, cmd>>

\* ---- killProcess(pid)
KpCheck ==
    /\ InCall("killProcess", "start")
    /\ Check("kill")
    /\ UNCHANGED <<dz, pidFile, port, inv, dying, cfgIn, cfgOut, rm, cl, cmd>>

KpKill ==
    /\ InCall("killProcess", "kill")
    /\ Send("root", "kill", "waitkill")
    /\ UNCHANGED <<dz, pidFile, port, inv, dying, cfgIn, cfgOut, rm, cl, cmd>>

\* proc.wait(timeout=3): one poll; TimeoutExpired goes to the except clause.
KpWait ==
    /\ InCall("killProcess", "waitkill")
    /\ \E ex \in ExitedViews :
         IF "root" \in ex THEN Return(TRUE)
         ELSE IF call.polls < KillPolls
              THEN call' = [call EXCEPT !.polls = @ + 1]
              ELSE call' = [call EXCEPT !.raised = "TimeoutExpired",
                                        !.expired = TRUE, !.pc = "except"]
    /\ UNCHANGED <<dz, pidFile, port, inv, dying, cfgIn, cfgOut, os, rm, cl, cmd>>

KpExcept ==
    /\ InCall("killProcess", "except")
    /\ Return(NotRunning("root"))
    /\ UNCHANGED <<dz, pidFile, port, inv, dying, cfgIn, cfgOut, os, rm, cl, cmd>>

\* ---- waitForExit(pid, timeout)
\* psutil.Process(pid): NoSuchProcess gives True; AccessDenied is not caught.
WfeLookup ==
    /\ InCall("waitForExit", "start")
    /\ IF ~Exists("root") THEN Return(TRUE)
       ELSE IF Proc("root").access = "hidden"
            THEN call' = [call EXCEPT !.raised = "AccessDenied",
                                      !.result = "raised", !.pc = "done",
                                      !.final = {p \in Tree : Live(p)}]
            ELSE call' = [call EXCEPT !.pc = "wait"]
    /\ UNCHANGED <<dz, pidFile, port, inv, dying, cfgIn, cfgOut, os, rm, cl, cmd>>

\* proc.wait(timeout=timeout): one poll.
WfeWait ==
    /\ InCall("waitForExit", "wait")
    /\ \E ex \in ExitedViews :
         IF "root" \in ex THEN Return(TRUE)
         ELSE IF call.polls < MaxPolls
              THEN call' = [call EXCEPT !.polls = @ + 1]
              ELSE call' = [call EXCEPT !.expired = TRUE, !.result = "false",
                                        !.pc = "done",
                                        !.final = {p \in Tree : Live(p)}]
    /\ UNCHANGED <<dz, pidFile, port, inv, dying, cfgIn, cfgOut, os, rm, cl, cmd>>

\* ---- terminateProcessTree(pid, timeout)
TtCheck ==
    /\ InCall("terminateProcessTree", "start")
    /\ Check("enum")
    /\ UNCHANGED <<dz, pidFile, port, inv, dying, cfgIn, cfgOut, rm, cl, cmd>>

\* proc = psutil.Process(pid); children = proc.children(recursive=True)
TtEnumerate ==
    /\ InCall("terminateProcessTree", "enum")
    /\ IF ~Exists("root")
       THEN call' = [call EXCEPT !.raised = "NoSuchProcess", !.pc = "except"]
       ELSE LET kids == {k \in Kids : Exists(k)} IN
            call' = [call EXCEPT !.children = kids, !.todo = kids,
                                 !.pc = "termkids"]
    /\ UNCHANGED <<dz, pidFile, port, inv, dying, cfgIn, cfgOut, os, rm, cl, cmd>>

\* "Terminate children first": one turn of the loop.
TtTermChild ==
    /\ InCall("terminateProcessTree", "termkids")
    /\ \E k \in call.todo : SendQuiet(k, "term")
    /\ UNCHANGED <<dz, pidFile, port, inv, dying, cfgIn, cfgOut, rm, cl, cmd>>

\* "Terminate parent"
TtTermRoot ==
    /\ InCall("terminateProcessTree", "termkids")
    /\ call.todo = {}
    /\ Send("root", "term", "waitall")
    /\ UNCHANGED <<dz, pidFile, port, inv, dying, cfgIn, cfgOut, rm, cl, cmd>>

\* gone, alive = psutil.wait_procs([proc] + children, timeout): one poll.
TtWaitProcs ==
    /\ InCall("terminateProcessTree", "waitall")
    /\ \E ex \in ExitedViews :
         LET left == ({"root"} \cup call.children) \ ex IN
         IF left = {}
         THEN call' = [call EXCEPT !.alive = {}, !.todo = {}, !.pc = "killall"]
         ELSE IF call.polls < MaxPolls
              THEN call' = [call EXCEPT !.polls = @ + 1]
              ELSE call' = [call EXCEPT !.expired = TRUE, !.alive = left,
                                        !.todo = left, !.pc = "killall"]
    /\ UNCHANGED <<dz, pidFile, port, inv, dying, cfgIn, cfgOut, os, rm, cl, cmd>>

\* "Force kill survivors": one turn of the loop.
TtKillSurvivor ==
    /\ InCall("terminateProcessTree", "killall")
    /\ \E k \in call.todo : SendQuiet(k, "kill")
    /\ UNCHANGED <<dz, pidFile, port, inv, dying, cfgIn, cfgOut, rm, cl, cmd>>

\* return len(alive) == 0 or all(not p.is_running() for p in alive);
\* is_running() is true of a zombie.
TtReturn ==
    /\ InCall("terminateProcessTree", "killall")
    /\ call.todo = {}
    /\ Return(call.alive = {} \/ \A p \in call.alive : ~Exists(p))
    /\ UNCHANGED <<dz, pidFile, port, inv, dying, cfgIn, cfgOut, os, rm, cl, cmd>>

TtExcept ==
    /\ InCall("terminateProcessTree", "except")
    /\ Return(NotRunning("root"))
    /\ UNCHANGED <<dz, pidFile, port, inv, dying, cfgIn, cfgOut, os, rm, cl, cmd>>

\* ---- waitForPort(port, host, timeout): a turn of the while loop, or the
\* return False after it.
WaitForPort ==
    /\ InCall("waitForPort", "start")
    /\ IF call.polls < MaxPolls
       THEN IF os.busy THEN Return(TRUE)
            ELSE call' = [call EXCEPT !.polls = @ + 1]
       ELSE call' = [call EXCEPT !.expired = TRUE, !.result = "false",
                                 !.pc = "done"]
    /\ UNCHANGED <<dz, pidFile, port, inv, dying, cfgIn, cfgOut, os, rm, cl, cmd>>

\* A wait for the port that has no timeout.
WaitForPortFreeForever ==
    /\ InCall("waitForPortFree", "start")
    /\ IF ~os.busy THEN Return(TRUE)
       ELSE call' = [call EXCEPT !.polls = (@ + 1) % (MaxPolls + 1)]
    /\ UNCHANGED <<dz, pidFile, port, inv, dying, cfgIn, cfgOut, os, rm, cl, cmd>>

\* ---- waitForPortFree(port, timeout)
WaitForPortFree ==
    /\ InCall("waitForPortFree", "start")
    /\ IF call.polls < MaxPolls
       THEN IF ~os.busy THEN Return(TRUE)
            ELSE call' = [call EXCEPT !.polls = @ + 1]
       ELSE call' = [call EXCEPT !.expired = TRUE, !.result = "false",
                                 !.pc = "done"]
    /\ UNCHANGED <<dz, pidFile, port, inv, dying, cfgIn, cfgOut, os, rm, cl, cmd>>

\* ---- The targets, while a call is in progress.
\* A process exits of its own accord or by a signal it got.
ProcExits ==
    /\ call.pc # "done"
    /\ \E p \in Tree, st \in {"zombie", "gone"} :
         /\ Live(p)
         /\ os' = [os EXCEPT !.procs[p] =
                      IF st = "gone" THEN NoProc ELSE [@ EXCEPT !.state = st]]
    /\ UNCHANGED <<dz, pidFile, port, inv, dying, cfgIn, cfgOut, call, rm, cl, cmd>>

\* The parent of a zombie reaps it.
Reaped ==
    /\ call.pc # "done"
    /\ \E p \in Tree :
         /\ Proc(p).state = "zombie"
         /\ os' = [os EXCEPT !.procs[p] = NoProc]
    /\ UNCHANGED <<dz, pidFile, port, inv, dying, cfgIn, cfgOut, call, rm, cl, cmd>>

\* Somebody binds or releases the port.
PortFlips ==
    /\ call.pc # "done"
    /\ call.fn \in {"waitForPort", "waitForPortFree"}
    /\ os' = [os EXCEPT !.busy = ~@]
    /\ UNCHANGED <<dz, pidFile, port, inv, dying, cfgIn, cfgOut, call, rm, cl, cmd>>

\* The steps of the call itself.
CallStep ==
    \/ TpCheck \/ TpTerminate \/ TpWait \/ TpKill \/ TpWaitKill \/ TpExcept
    \/ KpCheck \/ KpKill \/ KpWait \/ KpExcept
    \/ WfeLookup \/ WfeWait
    \/ TtCheck \/ TtEnumerate \/ TtTermChild \/ TtTermRoot \/ TtWaitProcs
    \/ TtKillSurvivor \/ TtReturn \/ TtExcept
    \/ WaitForPort \/ WaitForPortFree

ProcNext ==
    \/ CallStep
    \/ ProcExits
    \/ Reaped
    \/ PortFlips

ProcSpec == ProcInit /\ [][ProcNext]_vars

\* The call is scheduled: it is a single thread that keeps running.
ProcFairSpec == ProcSpec /\ WF_vars(CallStep)

---------------------------------------------------------------------------
\* daemon.py: daemonize(pidFile, logFile, workDir) on its own, process by
\* process.  A fork leaves two processes that go on independently.

\* The generation of a process of the family.
StageOf(w) == IF w = "original" THEN 1 ELSE IF w = "child" THEN 2 ELSE 3

\* The pid of the process that forked this one (the original's is its own).
ParentPid(w) == PidOf(dz.slot, IF w = "original" THEN 1 ELSE StageOf(w) - 1)

\* os.getpid() in a process of the family.
GetPid(w) == PidOf(dz.slot, StageOf(w))

At(w, pc) == dz.procs[w].pc = pc

Did(w, what) == [dz EXCEPT !.log = Append(@, <<w, what>>)]

DaemonInit ==
    /\ pidFile \in InitialFiles
    /\ port = 0
    /\ inv = [i \in Inv |-> Idle]
    /\ dying = {}
    /\ cfgIn = NoInputs
    /\ cfgOut = NotLoaded
    /\ os = NoOs
    /\ call = NoCall
    /\ rm = NoRemovals
    /\ cl = NoClean
    /\ cmd = NoCommand
    /\ \E i \in Inv, given \in BOOLEAN :
         dz = [NoDaemon EXCEPT !.procs["original"].pc = "fork1",
                               !.pidArg = given, !.slot = i, !.file0 = pidFile]

\* "First fork": os.fork() in the original; OSError is the failure.
DaemonFork1 ==
    /\ At("original", "fork1")
    /\ \E forked \in BOOLEAN :
         dz' = IF forked
               THEN [Did("original", "fork") EXCEPT
                        !.procs["original"].pc = "parent",
                        !.procs["child"].pc = "decouple"]
               ELSE [dz EXCEPT !.procs["original"].pc = "failed"]
    /\ UNCHANGED <<pidFile, port, inv, dying, cfgIn, cfgOut, os, call, rm, cl, cmd>>

\* os.chdir(workDir or "/"); os.setsid(); os.umask(0o022) in the first child.
DaemonDecouple ==
    /\ At("child", "decouple")
    /\ dz' = [dz EXCEPT !.log = @ \o << <<"child", "chdir">>,
                                        <<"child", "setsid">>,
                                        <<"child", "umask">> >>,
                        !.procs["child"].pc = "fork2"]
    /\ UNCHANGED <<pidFile, port, inv, dying, cfgIn, cfgOut, os, call, rm, cl, cmd>>

\* "Second fork": os.fork() in the first child.
DaemonFork2 ==
    /\ At("child", "fork2")
    /\ \E forked \in BOOLEAN :
         dz' = IF forked
               THEN [Did("child", "fork") EXCEPT
                        !.procs["child"].pc = "parent",
                        !.procs["grandchild"].pc = "redirect"]
               ELSE [dz EXCEPT !.procs["child"].pc = "failed"]
    /\ UNCHANGED <<pidFile, port, inv, dying, cfgIn, cfgOut, os, call, rm, cl, cmd>>

\* `if pid > 0: sys.exit(0)` in the process that forked.
DaemonParentExits ==
    /\ \E w \in Family :
         /\ At(w, "parent")
         /\ dz' = [dz EXCEPT !.procs[w] = [pc |-> "exited", code |-> "0"]]
    /\ UNCHANGED <<pidFile, port, inv, dying, cfgIn, cfgOut, os, call, rm, cl, cmd>>

\* `except OSError: printErrorMessage(...); sys.exit(1)`
DaemonForkFailed ==
    /\ \E w \in Family :
         /\ At(w, "failed")
         /\ dz' = [dz EXCEPT !.procs[w] = [pc |-> "exited", code |-> "1"]]
    /\ UNCHANGED <<pidFile, port, inv, dying, cfgIn, cfgOut, os, call, rm, cl, cmd>>

\* _redirectStdStreams(logFile) in the grandchild.
DaemonRedirect ==
    /\ At("grandchild", "redirect")
    /\ dz' = [Did("grandchild", "redirect") EXCEPT !.procs["grandchild"].pc = "write"]
    /\ UNCHANGED <<pidFile, port, inv, dying, cfgIn, cfgOut, os, call, rm, cl, cmd>>

\* `if pidFile: ... pidFile.write_text(str(os.getpid()))`, then the return.
DaemonWritePid ==
    /\ At("grandchild", "write")
    /\ IF dz.pidArg
       THEN /\ pidFile' = WritePidFile(GetPid("grandchild"))
            /\ dz' = [Did("grandchild", "write") EXCEPT
                         !.procs["grandchild"].pc = "returned"]
       ELSE /\ pidFile' = pidFile
            /\ dz' = [dz EXCEPT !.procs["grandchild"].pc = "returned"]
    /\ UNCHANGED <<port, inv, dying, cfgIn, cfgOut, os, call, rm, cl, cmd>>

DaemonNext ==
    \/ DaemonFork1
    \/ DaemonDecouple
    \/ DaemonFork2
    \/ DaemonParentExits
    \/ DaemonForkFailed
    \/ DaemonRedirect
    \/ DaemonWritePid

DaemonSpec == DaemonInit /\ [][DaemonNext]_vars

---------------------------------------------------------------------------
\* Removal of the PID file, system call by system call: removePidFile
\* (stop, restart, reload), the finally clause of launch() and the PID part
\* of clean all test pidFile.exists() and then call pidFile.unlink().

MaxCalls == 2    \* removals one caller makes in a row

RemovalSites == {"removePidFile", "launch", "clean"}

RemoveInit ==
    /\ pidFile \in InitialFiles
    /\ port = 0
    /\ inv = [i \in Inv |-> Idle]
    /\ dying = {}
    /\ cfgIn = NoInputs
    /\ cfgOut = NotLoaded
    /\ os = NoOs
    /\ call = NoCall
    /\ dz = NoDaemon
    /\ rm = NoRemovals
    /\ cl = NoClean
    /\ cmd = NoCommand

\* A caller reaches its removal; a second call follows the first at once.
RmBegin(r) ==
    /\ rm[r].pc \in {"idle", "done"}
    /\ Len(rm[r].results) < MaxCalls
    /\ \E site \in RemovalSites :
         /\ rm[r].pc = "done" => site = rm[r].by
         /\ rm' = [rm EXCEPT ![r].by = site, ![r].pc = "exists",
                             ![r].had = IF rm[r].pc = "idle" THEN pidFile # Absent
                                        ELSE @]
    /\ UNCHANGED <<pidFile, port, inv, dying, cfgIn, cfgOut, os, call, dz, cl, cmd>>

\* `if pidPath.exists():` and, when it is false, `return False`.
RmExists(r) ==
    /\ rm[r].pc = "exists"
    /\ rm' = IF RemovePidFileResult(pidFile)
             THEN [rm EXCEPT ![r].pc = "unlink"]
             ELSE [rm EXCEPT ![r].pc = "done", ![r].results = Append(@, "false")]
    /\ UNCHANGED <<pidFile, port, inv, dying, cfgIn, cfgOut, os, call, dz, cl, cmd>>

\* `pidPath.unlink(); return True`: Path.unlink() raises FileNotFoundError
\* when the file is not there any more.
RmUnlink(r) ==
    /\ rm[r].pc = "unlink"
    /\ IF pidFile # Absent
       THEN /\ pidFile' = RemovePidFile(pidFile)
            /\ rm' = [rm EXCEPT ![r].pc = "done", ![r].results = Append(@, "true")]
       ELSE /\ pidFile' = pidFile
            /\ rm' = [rm EXCEPT ![r].pc = "done", ![r].results = Append(@, "raised")]
    /\ UNCHANGED <<port, inv, dying, cfgIn, cfgOut, os, call, dz, cl, cmd>>

RemoveNext ==
    \/ \E r \in Removers : RmBegin(r)
    \/ \E r \in Removers : RmExists(r)
    \/ \E r \in Removers : RmUnlink(r)

RemoveSpec == RemoveInit /\ [][RemoveNext]_vars

---------------------------------------------------------------------------
\* cli.py: what start and run make of their options before and in launch().

\* typer's default of start's --port option.
StartDefaultPort == 8000

\* envValue.lower().strip() on the values used here.
LowerStrip(str) ==
    CASE str = "Development" -> "development"
      [] str = "PRODUCTION"  -> "production"
      [] str = " local"      -> "local"
      [] OTHER               -> Lower(str)

DevEnvNames  == {"dev", "development", "local"}
ProdEnvNames == {"prod", "production"}

\* smartMode._normalizeEnv: the name and the mode.
NormalizeEnv(envValue) ==
    [env  |-> LowerStrip(envValue),
     mode |-> IF LowerStrip(envValue) \in DevEnvNames THEN "dev" ELSE "prod"]

\* run: "Use detected environment if it's a named env".
RunEnvName(detectedEnv) == IF detectedEnv \notin {"dev", "prod"} THEN detectedEnv ELSE ""

\* start: the cliArgs dict; --port has a default, daemon is set only when
\* --daemon / --no-daemon was given.
StartCliArgs(c) ==
    [port   |-> IF c.optPort.some THEN c.optPort ELSE Some(StartDefaultPort),
     reload |-> NoneB,
     daemon |-> c.optDaemon]

\* run: the cliArgs dict; --port is Optional with default None.
RunCliArgs(c) == [port |-> c.optPort, reload |-> NoneB, daemon |-> NoneB]

\* launch(cliArgs=..., mode=..., envName=...): loadConfig, the mode override
\* and the dev mode defaults; a ValueError becomes LaunchError.
LaunchConfig(in) ==
    LET r == LoadConfig(in) IN
    IF r.status # "ok" THEN r
    ELSE [status |-> "ok",
          config |-> DevDefaults(ModeOverride(r.config, in.mode))]

\* Sections of the project file in these runs.
CommandOverrides ==
    [port : {None, Some(5)}, reload : {NoneB}, daemon : {NoneB, SomeB(TRUE)}]

CommandSources ==
    UNION { UNION { [pyproject : [port : {None, Some(1)}, reload : {NoneB},
                                  daemon : {NoneB}],
                     dotenv    : [PORT : {NoRaw, Raw("2")}, RELOAD : {NoRaw},
                                  DAEMON : {NoRaw}],
                     osEnv     : [PORT : {NoRaw, Raw("3")}, RELOAD : {NoRaw},
                                  DAEMON : {NoRaw}],
                     cli       : {NoKeys},
                     dev       : {lg[1]},
                     prod      : {lg[2]},
                     envs      : {NoEnvs, Envs({"staging"}, ov),
                                  Envs({"development", "production"}, ov)},
                     envName   : {""},
                     mode      : {""}] : lg \in Legacy(ov) }
            : ov \in CommandOverrides }

\* What FA_ENV / PYTHON_ENV / NODE_ENV or the heuristics give to run.
DetectedValues == {"dev", "Development", " local", "prod", "PRODUCTION", "staging"}

CommandInit ==
    /\ pidFile = Absent
    /\ port = 0
    /\ inv = [i \in Inv |-> Idle]
    /\ dying = {}
    /\ cfgIn \in CommandSources
    /\ cfgOut = NotLoaded
    /\ os = NoOs
    /\ call = NoCall
    /\ dz = NoDaemon
    /\ rm = NoRemovals
    /\ cl = NoClean
    /\ \/ \E p \in {None, Some(4)}, d \in {NoneB, SomeB(TRUE), SomeB(FALSE)},
            e \in {"", "staging"} :
            cmd = [NoCommand EXCEPT !.kind = "start", !.pc = "resolve",
                                    !.optPort = p, !.optDaemon = d, !.optEnv = e]
       \/ \E p \in {None, Some(4)}, v \in DetectedValues :
            cmd = [NoCommand EXCEPT !.kind = "run", !.pc = "detect",
                                    !.optPort = p, !.raw = v]

\* start: config = loadConfig(cliArgs=cliArgs, envName=envName); the
\* ValueError is not caught.
StartResolve ==
    /\ cmd.kind = "start" /\ cmd.pc = "resolve"
    /\ LET r == LoadConfig([cfgIn EXCEPT !.cli = StartCliArgs(cmd),
                                         !.envName = cmd.optEnv]) IN
       cmd' = IF r.status = "ok"
              THEN [cmd EXCEPT !.own = r, !.pc = "decide"]
              ELSE [cmd EXCEPT !.own = r, !.pc = "done", !.end = "cfg_exc"]
    /\ UNCHANGED <<pidFile, port, inv, dying, cfgIn, cfgOut, os, call, dz, rm, cl>>

\* start: daemonEnabled from --daemon / --no-daemon, else from config.daemon.
StartDecide ==
    /\ cmd.kind = "start" /\ cmd.pc = "decide"
    /\ cmd' = [cmd EXCEPT !.daemonEnabled =
                              IF cmd.optDaemon.some THEN cmd.optDaemon.val
                              ELSE cmd.own.config.daemon,
                          !.pc = "launch"]
    /\ UNCHANGED <<pidFile, port, inv, dying, cfgIn, cfgOut, os, call, dz, rm, cl>>

\* start: launch(cliArgs=cliArgs, mode=RunMode.PROD, envName=envName).
StartLaunch ==
    /\ cmd.kind = "start" /\ cmd.pc = "launch"
    /\ LET r == LaunchConfig([cfgIn EXCEPT !.cli = StartCliArgs(cmd),
                                           !.mode = "prod",
                                           !.envName = cmd.optEnv]) IN
       cmd' = [cmd EXCEPT !.launch = r, !.pc = "done",
                          !.end = IF r.status = "ok" THEN "launched" ELSE "cfg_err"]
    /\ UNCHANGED <<pidFile, port, inv, dying, cfgIn, cfgOut, os, call, dz, rm, cl>>

\* run: detectedEnv, detectedMode = detectEnvironment()
RunDetect ==
    /\ cmd.kind = "run" /\ cmd.pc = "detect"
    /\ cmd' = [cmd EXCEPT !.detEnv = NormalizeEnv(cmd.raw).env,
                          !.detMode = NormalizeEnv(cmd.raw).mode,
                          !.pc = "launch"]
    /\ UNCHANGED <<pidFile, port, inv, dying, cfgIn, cfgOut, os, call, dz, rm, cl>>

\* run: launch(cliArgs=cliArgs, mode=detectedMode, envName=envName).
RunLaunch ==
    /\ cmd.kind = "run" /\ cmd.pc = "launch"
    /\ LET r == LaunchConfig([cfgIn EXCEPT !.cli = RunCliArgs(cmd),
                                           !.mode = cmd.detMode,
                                           !.envName = RunEnvName(cmd.detEnv)]) IN
       cmd' = [cmd EXCEPT !.launch = r, !.pc = "done",
                          !.end = IF r.status = "ok" THEN "launched" ELSE "cfg_err"]
    /\ UNCHANGED <<pidFile, port, inv, dying, cfgIn, cfgOut, os, call, dz, rm, cl>>

CommandNext ==
    \/ StartResolve
    \/ StartDecide
    \/ StartLaunch
    \/ RunDetect
    \/ RunLaunch

CommandSpec == CommandInit /\ [][CommandNext]_vars

---------------------------------------------------------------------------
\* cli.py: clean.  One invocation, run from its first line to its end
\* against a runtime directory that may hold the PID file of a serving
\* launcher, log files and the persisted environment marker.

MaxLogs == 2

\* A launcher blocked in its backend, as left by `fa dev`.
Serving == [Idle EXCEPT !.kind = "dev", !.pc = "serve", !.handlers = TRUE,
                        !.wroteLn = TRUE]

\* What --env and the project file can be for this command.
CleanSources ==
    {[NoInputs EXCEPT !.envName = e, !.envs = es] :
        e \in {"", "staging"}, es \in {NoEnvs, Envs({"staging"}, NoKeys)}}

\* cleanLogs(runtimeDir): every log file is removed, their number returned.
CleanLogs(n) == [left |-> 0, removed |-> n]

\* removeEnvFile(runtimeDir): the marker is removed; True when it was there.
RemoveEnvFile(marker) == [left |-> FALSE, removed |-> marker]

\* A clean that takes the recorded process for dead.
CleanKeepsNothing(f) == FALSE

\* clean keeps the PID file: `if pid and isProcessRunning(pid)`.
CleanKeeps(f) == Truthy(ReadPidFile(f)) /\ IsProcessRunning(ReadPidFile(f).val)

CleanInit ==
    /\ \E served \in BOOLEAN, d \in BOOLEAN, f \in InitialFiles \cup {Rec(PidOf(1, 1))},
          mk \in BOOLEAN, n \in 0..MaxLogs, lo \in BOOLEAN, y \in BOOLEAN :
          /\ served => d
          /\ ~d => (f = Absent /\ ~mk /\ n = 0)
          /\ inv = [i \in Inv |-> IF i = 1 /\ served THEN Serving ELSE Idle]
          /\ port = IF served THEN PidOf(1, 1) ELSE 0
          /\ pidFile = f
          /\ cl = [NoClean EXCEPT !.pc = "cfg", !.logsOnly = lo, !.yes = y,
                                  !.dir = d, !.marker = mk, !.logs = n,
                                  !.file0 = f, !.marker0 = mk, !.logs0 = n]
    /\ dying = {}
    /\ cfgIn \in CleanSources
    /\ cfgOut = NotLoaded
    /\ os = NoOs
    /\ call = NoCall
    /\ dz = NoDaemon
    /\ rm = NoRemovals
    /\ cmd = NoCommand

\* config = loadConfig(envName=envName); the ValueError is not caught.
CleanLoadConfig ==
    /\ cl.pc = "cfg"
    /\ cl' = IF LoadConfig(cfgIn).status = "ok"
             THEN [cl EXCEPT !.pc = "dir"]
             ELSE [cl EXCEPT !.pc = "done", !.end = "cfg_exc"]
    /\ UNCHANGED <<pidFile, port, inv, dying, cfgIn, cfgOut, os, call, dz, rm, cmd>>

\* if not runtimeDir.exists(): "Nothing to clean", Exit(0)
CleanDirCheck ==
    /\ cl.pc = "dir"
    /\ cl' = IF ~cl.dir THEN [cl EXCEPT !.pc = "done", !.end = "nodir"]
             ELSE [cl EXCEPT !.pc = IF cl.yes THEN "logs" ELSE "confirm"]
    /\ UNCHANGED <<pidFile, port, inv, dying, cfgIn, cfgOut, os, call, dz, rm, cmd>>

\* if not confirm: typer.confirm(...); declined: Exit(0)
CleanConfirm ==
    /\ cl.pc = "confirm"
    /\ \E answer \in BOOLEAN :
          cl' = IF answer THEN [cl EXCEPT !.pc = "logs"]
                ELSE [cl EXCEPT !.pc = "done", !.end = "declined"]
    /\ UNCHANGED <<pidFile, port, inv, dying, cfgIn, cfgOut, os, call, dz, rm, cmd>>

\* logsCount = cleanLogs(runtimeDir); with --logs that is all.
CleanLogFiles ==
    /\ cl.pc = "logs"
    /\ LET r == CleanLogs(cl.logs) IN
       cl' = IF cl.logsOnly
             THEN [cl EXCEPT !.logs = r.left, !.count = r.removed,
                             !.pc = "done", !.end = "cleaned"]
             ELSE [cl EXCEPT !.logs = r.left, !.count = r.removed, !.pc = "env"]
    /\ UNCHANGED <<pidFile, port, inv, dying, cfgIn, cfgOut, os, call, dz, rm, cmd>>

\* if removeEnvFile(runtimeDir): cleanedCount += 1
CleanEnvFile ==
    /\ cl.pc = "env"
    /\ LET r == RemoveEnvFile(cl.marker) IN
       cl' = [cl EXCEPT !.marker = r.left,
                        !.count = cl.count + (IF r.removed THEN 1 ELSE 0),
                        !.pc = "pid"]
    /\ UNCHANGED <<pidFile, port, inv, dying, cfgIn, cfgOut, os, call, dz, rm, cmd>>

\* if pidFile.exists(): warn when the recorded process is running, else
\* pidFile.unlink().
CleanPidFile ==
    /\ cl.pc = "pid"
    /\ IF pidFile = Absent
       THEN /\ pidFile' = pidFile
            /\ cl' = [cl EXCEPT !.pc = "done", !.end = "cleaned"]
       ELSE IF CleanKeeps(pidFile)
            THEN /\ pidFile' = pidFile
                 /\ cl' = [cl EXCEPT !.warned = TRUE, !.pc = "done", !.end = "cleaned"]
            ELSE /\ pidFile' = Absent
                 /\ cl' = [cl EXCEPT !.count = cl.count + 1,
                                     !.pc = "done", !.end = "cleaned"]
    /\ UNCHANGED <<port, inv, dying, cfgIn, cfgOut, os, call, dz, rm, cmd>>

CleanNext ==
    \/ CleanLoadConfig
    \/ CleanDirCheck
    \/ CleanConfirm
    \/ CleanLogFiles
    \/ CleanEnvFile
    \/ CleanPidFile

CleanSpec == CleanInit /\ [][CleanNext]_vars

---------------------------------------------------------------------------
\* Properties.

\* Invocation i takes a step that ends its process.
Ends(i) == inv[i].end = "" /\ inv'[i].end # ""

\* Ways a process ends that no Python code of the launcher takes part in.
Abrupt == {"killed", "hupexit"}

C2_SingleWriter ==
    \A i \in Inv : ~(inv[i].wroteDz /\ inv[i].wroteLn)

\* C3: a start that fails in configuration resolution or in the pre-flight
\* checks has had no effect on the PID file, in foreground and daemon mode.
C3_FailedStartLeavesPidFile ==
    [][\A i \in Inv :
          (/\ inv[i].kind = "start"
           /\ Ends(i)
           /\ inv'[i].end \in {"cfg_exc", "cfg_err", "preflight"})
          => /\ ~inv[i].wroteDz
             /\ ~inv[i].wroteLn
             /\ pidFile' = pidFile]_vars

\* C4: a launcher process ended by SIGTERM/SIGINT, at whatever point of the
\* launch, never leaves behind a PID file it wrote during that invocation.
C4_NoPidFileAfterSignal ==
    [][\A i \in Inv :
          (/\ inv[i].kind \in LauncherKinds
           /\ Ends(i)
           /\ inv'[i].end \in {"signal", "sigexit"}
           /\ (inv[i].wroteDz \/ inv[i].wroteLn))
          => pidFile' # Rec(Pid(i))]_vars

\* C5: status reports running exactly when (1) the PID file records a live
\* process, and then reports the recorded PID, or (2) the PID file is absent
\* or stale and the port is in use, and then reports the occupant's PID.
C5_StatusTwoCases ==
    [][\A i \in Inv :
          (inv[i].kind = "status" /\ inv[i].pc = "read" /\ Ends(i))
          => LET live  == pidFile.st = "pid" /\ IsProcessRunning(pidFile.val)
                 stale == pidFile.st = "pid" /\ ~IsProcessRunning(pidFile.val)
                 byPort == (pidFile = Absent \/ stale) /\ port # 0
             IN  /\ inv'[i].end = "reported"
                 /\ inv'[i].repRun = (live \/ byPort)
                 /\ live => inv'[i].repPid = Some(pidFile.val)
                 /\ byPort => inv'[i].repPid = Some(port)]_vars

\* C6: restart daemonizes the new instance if and only if the instance it
\* stopped was daemonized.
C6_RestartKeepsMode ==
    \A i \in Inv : inv[i].kind = "restart" => (inv[i].wasDaemon <=> inv[i].prevDz)

\* The command of invocation i is, at this step, looking at a PID file whose
\* recorded process is not running.
StaleSeen(i) ==
    \/ /\ inv[i].kind = "status"
       /\ inv[i].pc = "read"
       /\ pidFile.st = "pid" /\ ~IsProcessRunning(pidFile.val)
    \/ /\ inv[i].kind = "monitor"
       /\ inv[i].pc = "mon"
       /\ inv[i].tpid.some /\ ~IsProcessRunning(inv[i].tpid.val)
    \/ /\ inv[i].kind \in {"stop", "reload"}
       /\ inv[i].pc = "live"
       /\ ~IsProcessRunning(inv[i].tpid.val)
    \/ /\ inv[i].kind = "restart"
       /\ inv[i].sawStale

\* C7: when stop, reload, status, restart or monitor has read a stale PID
\* file, the PID file no longer exists once the command has completed.
C7_StaleFileRemoved ==
    [][\A i \in Inv :
          (StaleSeen(i) /\ Ends(i) /\ inv'[i].end \notin Abrupt \cup {"sigexit", "exc"})
          => pidFile' = Absent]_vars

C9_SuccessOnlyWhenPortFree ==
    \A i \in Inv : (inv[i].kind = "stop" /\ inv[i].end = "stopped") => inv[i].portFree

\* C10: stop with no readable PID (file absent or malformed) exits 1, sends
\* no signal and leaves the file system alone; stop with a stale PID removes
\* the PID file, sends no signal and exits 0.
C10_StopWithoutLiveTarget ==
    [][\A i \in Inv :
          (inv[i].kind = "stop" /\ inv'[i] # inv[i])
          => /\ (inv[i].pc = "read" /\ pidFile \in {Absent, Malformed})
                   => /\ inv'[i].end = "nopid"
                      /\ ExitCode("stop", inv'[i].end) = "1"
                      /\ pidFile' = pidFile
                      /\ inv'[i].sigs = <<>>
                      /\ UNCHANGED <<port, dying>>
                      /\ \A j \in Inv \ {i} : inv'[j] = inv[j]
             /\ (inv[i].pc = "live" /\ ~IsProcessRunning(inv[i].tpid.val))
                   => /\ inv'[i].end = "stale"
                      /\ ExitCode("stop", inv'[i].end) = "0"
                      /\ pidFile' = Absent
                      /\ inv'[i].sigs = <<>>
                      /\ UNCHANGED <<port, dying>>
                      /\ \A j \in Inv \ {i} : inv'[j] = inv[j]]_vars

\* A stop that found a malformed PID file has ended and the file is as it was.
C10_Witness ==
    \E i \in Inv : /\ inv[i].kind = "stop"
                   /\ inv[i].end = "nopid"
                   /\ pidFile = Malformed


\* C21: a configuration or launch error in a command ends it with exit
\* code 1; it never leaves the command as an uncaught exception.
C21_ConfigErrorsCaught ==
    \A i \in Inv :
        inv[i].end \in {"cfg_err", "cfg_exc", "preflight", "error"} =>
            ExitCode(inv[i].kind, inv[i].end) = "1"



\* The pcs of stop, restart and reload from which a signal is sent.
SignalPcs == {"sig", "twait", "kwait", "hup"}

\* C26: stop, restart and reload send a signal only to the PID they read,
\* which is positive and which their own liveness check found running: the
\* signalling steps are entered only from that check with the process
\* present, the PID is kept from there on, and reload's SIGHUP goes to that
\* PID only.
C26_SignalOnlyAfterLiveCheck ==
    [][\A i \in Inv :
          /\ (inv'[i].sigs # inv[i].sigs /\ inv'[i].sigs # <<>>)
                => /\ inv[i].kind \in {"stop", "restart", "reload"}
                   /\ inv[i].pc \in SignalPcs
                   /\ inv[i].tpid.some /\ inv[i].tpid.val > 0
                   /\ ("HUP" \in {inv'[i].sigs[n] : n \in 1..Len(inv'[i].sigs)}
                          <=> inv[i].kind = "reload")
          /\ (inv'[i].pc \in SignalPcs /\ inv[i].pc \notin SignalPcs)
                => /\ inv[i].pc = "live"
                   /\ inv[i].tpid.val > 0 /\ ProcessExists(inv[i].tpid.val)
          /\ (inv[i].pc \in SignalPcs \cup {"live"} /\ inv'[i].pc \in SignalPcs)
                => inv'[i].tpid = inv[i].tpid]_vars

\* A restart that read a negative PID went on to serve without a signal,
\* and a reload then sent SIGHUP to the PID it found running.
C26_Witness ==
    \E i, j \in Inv :
        /\ inv[i].kind = "restart" /\ inv[i].tpid = Some(0 - 1)
        /\ inv[i].sigs = <<>> /\ inv[i].pc = "serve"
        /\ inv[j].kind = "reload" /\ inv[j].sigs = <<"HUP">>


\* The pcs of a launcher from daemonize() to the end of launch().
StartPcs == (LaunchWindow \ {"c_cfg"}) \cup FinPcs

C28_CleanupOnlyOwnFile ==
    [][\A i \in Inv :
          (/\ inv[i].kind \in LauncherKinds
           /\ inv[i].pc \in FinPcs
           /\ inv'[i].end \in {"return", "error", "signal"})
          => /\ pidFile' # pidFile => pidFile = Rec(Pid(i))
             /\ \A j \in Inv \ {i} :
                   (Alive(j) /\ pidFile = Rec(Pid(j))) => pidFile' = pidFile]_vars

---------------------------------------------------------------------------
\* Properties of configuration resolution (ConfigSpec).

\* loadConfig has returned a configuration and launch() has not touched it.
Resolved == cfgOut.status = "ok" /\ ~cfgOut.launched

\* The section that the call selects.
Selected == EnvConfig(Config(cfgIn), cfgIn.envName)

\* What dotenv, process environment and command line supply for a field,
\* the highest of them first.
UpperPort ==
    IF cfgIn.cli.port.some THEN cfgIn.cli.port
    ELSE IF ParseEnvValues(cfgIn.osEnv).port.some THEN ParseEnvValues(cfgIn.osEnv).port
    ELSE ParseEnvValues(cfgIn.dotenv).port

UpperReload ==
    IF cfgIn.cli.reload.some THEN cfgIn.cli.reload
    ELSE IF ParseEnvValues(cfgIn.osEnv).reload.some THEN ParseEnvValues(cfgIn.osEnv).reload
    ELSE ParseEnvValues(cfgIn.dotenv).reload

\* C11: a field that the command line, the process environment or the dotenv
\* file supplies and that the selected override section also sets resolves
\* to the command line / environment / dotenv value.
C11_OverrideBelowSources ==
    (Resolved /\ Selected.some) =>
        /\ (Selected.ov.port.some /\ UpperPort.some)
               => cfgOut.config.port = UpperPort.val
        /\ (Selected.ov.reload.some /\ UpperReload.some)
               => cfgOut.config.reload = UpperReload.val

\* Every raw boolean of the environment and of the dotenv file is one of the
\* recognised spellings.
BoolsRecognised ==
    \A src \in {cfgIn.dotenv, cfgIn.osEnv} :
        src.RELOAD.some => CoerceBoolStrict(src.RELOAD.val).some

\* The selected section, if any, does not set the field.
PortNotOverridden   == ~(Selected.some /\ Selected.ov.port.some)
ReloadNotOverridden == ~(Selected.some /\ Selected.ov.reload.some)

\* C12: with no override section setting the field, the resolved value is
\* the value of the highest source among command line, process environment,
\* dotenv file and base section that defines it (an absent value never
\* replaces a defined one), and the built-in default when none defines it.
C12_HighestSourceWins ==
    Resolved =>
        /\ PortNotOverridden =>
               cfgOut.config.port =
                   IF UpperPort.some THEN UpperPort.val
                   ELSE IF cfgIn.pyproject.port.some THEN cfgIn.pyproject.port.val
                   ELSE DefaultPort
        /\ (ReloadNotOverridden /\ BoolsRecognised) =>
               cfgOut.config.reload =
                   IF UpperReload.some THEN UpperReload.val
                   ELSE IF cfgIn.pyproject.reload.some THEN cfgIn.pyproject.reload.val
                   ELSE FALSE

\* C12 witness: the environment beats dotenv and base where the command
\* line is silent, and a field nobody defines got its default.
C12_Witness ==
    /\ Resolved
    /\ ~Selected.some
    /\ ~cfgIn.cli.port.some
    /\ cfgIn.osEnv.PORT = Raw("3")
    /\ cfgIn.dotenv.PORT = Raw("2")
    /\ cfgIn.pyproject.port = Some(1)
    /\ cfgOut.config.port = 3
    /\ ~UpperReload.some /\ ~cfgIn.pyproject.reload.some
    /\ cfgOut.config.reload = FALSE

\* C13: when a section is applied, each field it sets takes its value, each
\* field it leaves unset keeps the value of the merged configuration, the
\* result carries no override sections, and applying the override step again
\* (getEffectiveConfig, or the mode override of launch()) changes nothing.
C13_FieldLevelOverride ==
    /\ (Resolved /\ Selected.some) =>
          /\ cfgOut.config.port =
                 IF Selected.ov.port.some THEN Selected.ov.port.val
                 ELSE Config(cfgIn).port
          /\ cfgOut.config.reload =
                 IF Selected.ov.reload.some THEN Selected.ov.reload.val
                 ELSE Config(cfgIn).reload
          /\ cfgOut.config.mode = Config(cfgIn).mode
          /\ ~cfgOut.config.dev.some
          /\ ~cfgOut.config.prod.some
          /\ ~cfgOut.config.envs.some
          /\ GetEffectiveConfig(cfgOut.config, cfgIn.envName) = cfgOut.config
          /\ GetEffectiveConfig(cfgOut.config, "") = cfgOut.config
    /\ (cfgOut.status = "ok" /\ cfgOut.launched) =>
          cfgOut.config = DevDefaults(LoadConfig(cfgIn).config)

\* C13 witness: a section that sets the port only was applied to a
\* configuration whose reload came from the base section, and launch() ran.
C13_Witness ==
    /\ cfgOut.status = "ok"
    /\ cfgOut.launched
    /\ cfgIn.mode = "prod"
    /\ Selected.some
    /\ Selected.ov.port = Some(5)
    /\ ~Selected.ov.reload.some
    /\ Config(cfgIn).port = 4
    /\ Config(cfgIn).reload
    /\ cfgOut.config.port = 5
    /\ cfgOut.config.reload

\* The call names an environment that is not defined.
UnknownEnv ==
    /\ cfgIn.envName # ""
    /\ \/ ~cfgIn.envs.some
       \/ cfgIn.envs.keys = {}
       \/ cfgIn.envName \notin cfgIn.envs.keys

\* C14: a call that names an environment which is not a key of the named
\* environments, or names one when none are defined (missing or empty),
\* raises and returns no configuration, whatever the other values and mode.
C14_UnknownEnvRaises ==
    (UnknownEnv /\ cfgOut.status # "none") =>
        /\ cfgOut.status \in {"invalid", "notfound", "nodefs"}
        /\ cfgOut.config = NoConfig

\* C14 witness: an otherwise valid call named an environment while the
\* named environments were an empty table.
C14_Witness ==
    /\ cfgOut.status = "nodefs"
    /\ cfgIn.envs = Envs({}, NoKeys)
    /\ cfgIn.envName = "qa"
    /\ cfgIn.mode = "prod"
    /\ Valid(Merged(cfgIn))

\* What a source gives for reload when unrecognised spellings are dropped.
StrictReload(src) ==
    IF src.RELOAD.some THEN CoerceBoolStrict(src.RELOAD.val) ELSE NoneB

\* C15: a boolean read from the process environment or the dotenv file is
\* true for true/1/yes, false for false/0/no (any case), and is dropped for
\* anything else, so that the lower source or the default is kept.
C15_BooleanCoercion ==
    (Resolved /\ ReloadNotOverridden) =>
        cfgOut.config.reload =
            IF cfgIn.cli.reload.some THEN cfgIn.cli.reload.val
            ELSE IF StrictReload(cfgIn.osEnv).some THEN StrictReload(cfgIn.osEnv).val
            ELSE IF StrictReload(cfgIn.dotenv).some THEN StrictReload(cfgIn.dotenv).val
            ELSE IF cfgIn.pyproject.reload.some THEN cfgIn.pyproject.reload.val
            ELSE FALSE

---------------------------------------------------------------------------
\* Properties of the process functions (ProcSpec, ProcFairSpec).

HasReturned == call.result \in {"true", "false"}

TermRoot == <<"term", "root">>
KillRoot == <<"kill", "root">>

C17_TrueOnlyIfGone ==
    (call.fn \in {"terminateProcess", "killProcess"} /\ HasReturned) =>
        (call.result = "true" <=> "root" \notin call.final)

\* The position of a signal in the signals of the call, 0 when not sent.
SigAt(sg) ==
    IF \E n \in 1..Len(call.sigs) : call.sigs[n] = sg
    THEN CHOOSE n \in 1..Len(call.sigs) : call.sigs[n] = sg
    ELSE 0

\* C18: terminateProcessTree on a root it found live, with descendants:
\* every descendant gets its terminate before the root, exactly the
\* survivors of the collective wait get a kill, and the result is True if
\* and only if no process of the tree is live at the return.
C18_TreeAllGone ==
    (call.fn = "terminateProcessTree" /\ HasReturned /\ call.live = "live"
        /\ call.children # {}) =>
        /\ \A k \in call.children :
               SigAt(<<"term", k>>) # 0 =>
                   (SigAt(TermRoot) = 0 \/ SigAt(<<"term", k>>) < SigAt(TermRoot))
        /\ \A p \in Tree : SigAt(<<"kill", p>>) # 0 => p \in call.alive
        /\ call.result = "true" <=> call.final = {}

WaitFns == {"waitForExit", "waitForPort", "waitForPortFree"}

\* C19: every call ends after a bounded number of polls, whatever the
\* target does, and a wait whose timeout expired gives False.
C19_WaitsReturn ==
    /\ <>(call.pc = "done")
    /\ [](call.polls <= MaxPolls)
    /\ []((call.fn \in WaitFns /\ call.expired) =>
             (call.pc = "done" /\ call.result = "false"))

\* C19 witness: the port stayed bound and waitForPortFree gave up.
C19_Witness ==
    /\ call.fn = "waitForPortFree"
    /\ call.pc = "done"
    /\ call.expired
    /\ call.result = "false"
    /\ os.busy

---------------------------------------------------------------------------
\* Properties of daemonize (DaemonSpec).

\* The position of an event in the log, 0 when it did not happen.
LogAt(ev) ==
    IF \E n \in 1..Len(dz.log) : dz.log[n] = ev
    THEN CHOOSE n \in 1..Len(dz.log) : dz.log[n] = ev
    ELSE 0

Happened(ev) == LogAt(ev) # 0

Exited(w, code) == dz.procs[w] = [pc |-> "exited", code |-> code]

\* A fork has failed in some process.
ForkFailed == \E w \in Family : At(w, "failed") \/ Exited(w, "1")

---------------------------------------------------------------------------
\* Properties of PID-file removal (RemoveSpec).

\* Remover r has the file to itself: nobody else has begun a removal.
Undisturbed(r) == \A q \in Removers \ {r} : rm[q].pc = "idle"

\* C24: removePidFile called with nobody else at the file: it returns True
\* exactly when a file existed, the file is absent after a call, and a
\* second call in a row does not raise and returns False.
C24_RemoveIdempotent ==
    \A r \in Removers :
        (Undisturbed(r) /\ rm[r].by = "removePidFile") =>
            /\ \A n \in 1..Len(rm[r].results) : rm[r].results[n] # "raised"
            /\ Len(rm[r].results) >= 1 => (rm[r].results[1] = "true" <=> rm[r].had)
            /\ \A n \in 2..Len(rm[r].results) : rm[r].results[n] = "false"
            /\ rm[r].pc = "done" => pidFile = Absent

\* C24 witness: one caller removed an existing file and called again.
C24_Witness ==
    /\ rm[1].by = "removePidFile"
    /\ Undisturbed(1)
    /\ rm[1].had
    /\ rm[1].pc = "done"
    /\ rm[1].results = <<"true", "false">>
    /\ pidFile = Absent

\* The first removals of both removers have ended.
BothRemoved == \A r \in Removers : Len(rm[r].results) >= 1

\* C29: when two removals of the PID file interleave, none raises, exactly
\* one of them removes the file, and the file is absent afterwards.
C29_RemovalRaces ==
    /\ \A r \in Removers : \A n \in 1..Len(rm[r].results) : rm[r].results[n] # "raised"
    /\ (BothRemoved /\ \E r \in Removers : rm[r].had) =>
           /\ Cardinality({r \in Removers : rm[r].results[1] = "true"}) = 1
           /\ pidFile = Absent

---------------------------------------------------------------------------
\* Properties of start and run (CommandSpec).

\* The sources of a run without the command line.
BaseIn(mode) == [cfgIn EXCEPT !.mode = mode]

\* C23: when run detects a built-in dev or prod name, it launches in that
\* mode with the base configuration and the matching dev/prod section,
\* whether or not the project file defines an environment of that name.
C23_RunBuiltinNames ==
    (cmd.kind = "run" /\ cmd.pc = "done"
        /\ cmd.detEnv \in DevEnvNames \cup ProdEnvNames
        /\ Valid(Merged([cfgIn EXCEPT !.cli = RunCliArgs(cmd)]))) =>
        /\ cmd.launch.status = "ok"
        /\ cmd.launch.config.mode = cmd.detMode
        /\ cmd.launch.config =
               DevDefaults(GetEffectiveConfig(
                   Config([BaseIn(cmd.detMode) EXCEPT !.cli = RunCliArgs(cmd)]), ""))

\* What the project file, the dotenv file and the environment give for port.
SourcesPort ==
    MergeConfigs(<<cfgIn.pyproject, ParseEnvValues(cfgIn.dotenv),
                   ParseEnvValues(cfgIn.osEnv)>>).port

\* C27: start without --port does not overwrite the port that the project
\* file, the dotenv file or the environment defines: the command and the
\* launch resolve that port.
C27_AbsentOptionKeepsSources ==
    (cmd.kind = "start" /\ cmd.end = "launched" /\ ~cmd.optPort.some
        /\ SourcesPort.some) =>
        /\ ~(Selected.some /\ Selected.ov.port.some) =>
               cmd.own.config.port = SourcesPort.val
        /\ LET sel == EnvConfig(Config([cfgIn EXCEPT !.mode = "prod",
                                                    !.envName = cmd.optEnv]),
                                cmd.optEnv) IN
           ~(sel.some /\ sel.ov.port.some) =>
               cmd.launch.config.port = SourcesPort.val

\* C30: in one start the configuration that decides about the daemon is the
\* one launch() runs with: they agree on daemon, and the decision without
\* --daemon / --no-daemon is the daemon setting of the launch configuration.
C30_OneEffectiveConfig ==
    (cmd.kind = "start" /\ cmd.end = "launched") =>
        /\ cmd.own.config.daemon = cmd.launch.config.daemon
        /\ cmd.own.config.port = cmd.launch.config.port
        /\ ~cmd.optDaemon.some => cmd.daemonEnabled = cmd.launch.config.daemon

---------------------------------------------------------------------------
\* Properties of clean (CleanSpec).

\* The PID file as clean found it records a process that is running.
RecordsLive(f) == f.st = "pid" /\ f.val > 0 /\ ProcessExists(f.val)

====
